---- MODULE Spec2Model ----
(***************************************************************************)
(* The journal / group / test state machine of the suselog test logging    *)
(* library (src/suselog/library/suselog.c) and of its earlier copy         *)
(* (src/junit/library/suselog.c).                                          *)
(*                                                                         *)
(* The journal and everything it owns is one record value; every library   *)
(* function is an operator from journal values to journal values, so that  *)
(* a function calling another one is the composition of the operators.     *)
(* One action per public entry point applies the operator to the journal.  *)
(* The wall clock (timestamp, duration) is a measurement that no function   *)
(* reads back; it is not part of the journal value.                        *)
(***************************************************************************)
EXTENDS Integers, Sequences, FiniteSets, TLC

VARIABLES journal, last

vars == <<journal, last>>

(***************************************************************************)
(* Bounds of the model                                                     *)
(***************************************************************************)
\* Spec, SpecJunit: groups and tests (of all groups) begun in a run; calls that
\* log are made while the journal holds fewer than MaxLog records
MaxGroups == 2
MaxTests == 2
MaxLog == 1
\* SpecJunit: a test is finished while its group has counted fewer outcomes
MaxCount == 3
\* SpecNames: groups and tests (of all groups) begun in a run
MaxNamedGroups == 3
MaxNamedTests == 3
\* SpecLog: groups and tests (of all groups) begun in a run; calls that log are
\* made while the journal holds fewer than MaxRecords records
MaxLogGroups == 1
MaxLogTests == 2
MaxRecords == 2
\* SpecQuery: groups and tests (of all groups) begun in a run; messages are
\* logged while the journal holds fewer than MaxQueryRecords records
MaxQueryGroups == 1
MaxQueryTests == 1
MaxQueryRecords == 3
\* SpecMerge: groups and tests (of all groups) begun in a run; a file is merged
\* while the groups hold fewer than MaxMerged merged elements; a file holds up
\* to MaxCollections top-level elements with up to MaxChildren children in all
MaxMergeGroups == 2
MaxMergeTests == 1
MaxMerged == 1
MaxCollections == 2
MaxChildren == 3
\* SpecEscape: one test; output of up to MaxDataLen bytes is recorded while the
\* journal holds fewer than MaxEscapeRecords records
MaxDataLen == 3
MaxEscapeRecords == 1
\* SpecWriter: groups and tests (of all groups) begun in a run; calls that log
\* are made while the journal holds fewer than MaxWriterLog records; a call is
\* made while the console holds fewer than MaxConsole hook calls
MaxWriterGroups == 2
MaxWriterTests == 2
MaxWriterLog == 1
MaxConsole == 4

\* reports of several groups and tests
MaxReportGroups == 2
MaxReportTests == 2
MaxReportRecords == 2

\* reports whose names and messages hold quotes
MaxAttrGroups == 1
MaxAttrTests == 2
MaxAttrLog == 2

\* SpecHooks: groups and tests (of all groups) begun in a run; calls that log
\* are made while the journal holds fewer than MaxHookLog records; a call is
\* made while the console holds fewer than MaxHookCalls hook calls
MaxHookGroups == 2
MaxHookTests == 3
MaxHookLog == 1
MaxHookCalls == 9

\* SpecText: groups and tests (of all groups) begun in a run; calls that log
\* are made while the journal holds fewer than MaxTextRecords records
MaxTextGroups == 1
MaxTextTests == 2
MaxTextRecords == 2

\* SpecScope: groups and tests (of all groups) begun in a run; a file is merged
\* while the groups hold fewer than MaxScopeMerged merged elements; calls that
\* log are made while the journal holds fewer than MaxScopeLog records
MaxScopeGroups == 2
MaxScopeTests == 2
MaxScopeMerged == 1
MaxScopeLog == 1

(***************************************************************************)
(* Program constants                                                       *)
(***************************************************************************)
NameBufSize == 256
TimeBufSize == 256

SUSELOG_STATUS_RUNNING == 0
SUSELOG_STATUS_SUCCESS == 1
SUSELOG_STATUS_FAILURE == 2
SUSELOG_STATUS_ERROR == 3
SUSELOG_STATUS_SKIPPED == 4

SUSELOG_LEVEL_GROUP == 0
SUSELOG_LEVEL_TEST == 1

suselog_status_t ==
    { SUSELOG_STATUS_RUNNING, SUSELOG_STATUS_SUCCESS, SUSELOG_STATUS_FAILURE,
      SUSELOG_STATUS_ERROR, SUSELOG_STATUS_SKIPPED }

suselog_severity_t ==
    { "INFO", "WARNING", "FAILURE", "ERROR", "STDOUT", "STDERR" }

suselog_level_t == { SUSELOG_LEVEL_GROUP, SUSELOG_LEVEL_TEST }

(***************************************************************************)
(* Inputs of the calls                                                     *)
(***************************************************************************)
NULL == "<NULL>"
JournalNames == { "mytest" }
GroupNames == { NULL, "foobar" }
TestNames == { NULL, "tag" }
Messages == { "m" }
LogMessages == { "m", "n" }
RecordData == { <<>>, <<65, 1>> }
\* names and messages with and without a double quote
QuoteNames == { NULL, "a\"b" }
QuoteMessages == { "m", "\"", "a\"b" }
QuerySeverities == { "INFO", "FAILURE", "ERROR" }

NoTest == [g |-> 0, t |-> 0]

\* what localtime() gives for the creation time of a group: the years since
\* 1900, the months since January (0..11), the day of the month (1..31), the
\* hours, the minutes and the seconds (0..60)
LocalTimes ==
    [ tm_year : { 70, 126 }, tm_mon : { 0, 1, 8, 9, 11 }, tm_mday : { 1, 9, 10, 31 },
      tm_hour : { 0, 9, 23 }, tm_min : { 0, 5, 59 }, tm_sec : { 0, 7, 60 } ]

\* the LC_CTYPE locale of the process
Locales == { "C", "UTF-8" }

\* the outcomes of undefined behaviour: the process crashes, or it goes on
UbOutcomes == { "crash", "text" }

(***************************************************************************)
(* Helpers                                                                 *)
(***************************************************************************)
\* snprintf(buf, size, ...): at most size-1 bytes of the formatted string
Snprintf(size, s) == IF Len(s) < size THEN s ELSE SubSeq(s, 1, size - 1)

suselog_stats_zero ==
    [ num_tests |-> 0, num_succeeded |-> 0, num_failed |-> 0, num_errors |-> 0,
      num_warnings |-> 0, num_disabled |-> 0, num_skipped |-> 0 ]

suselog_stats_update(stats, status) ==
    CASE status = SUSELOG_STATUS_SUCCESS ->
            [stats EXCEPT !.num_succeeded = @ + 1]
      [] status = SUSELOG_STATUS_FAILURE ->
            [stats EXCEPT !.num_failed = @ + 1]
      [] status = SUSELOG_STATUS_ERROR ->
            [stats EXCEPT !.num_errors = @ + 1]
      [] OTHER -> stats

\* "=" written for "+=": the sums are overwritten by the last group's counters
suselog_stats_aggregate_assign(agg, sub) ==
    [agg EXCEPT !.num_tests = sub.num_tests,
                !.num_succeeded = sub.num_succeeded,
                !.num_failed = sub.num_failed,
                !.num_errors = sub.num_errors,
                !.num_warnings = sub.num_warnings,
                !.num_disabled = sub.num_disabled]

suselog_stats_aggregate(agg, sub) ==
    [agg EXCEPT !.num_tests = @ + sub.num_tests,
                !.num_succeeded = @ + sub.num_succeeded,
                !.num_failed = @ + sub.num_failed,
                !.num_errors = @ + sub.num_errors,
                !.num_warnings = @ + sub.num_warnings,
                !.num_disabled = @ + sub.num_disabled]

\* "%s%u" of base and index; the caller stores index + 1
suselog_autoname_next(base, index) ==
    Snprintf(NameBufSize, base \o ToString(index))

suselog_info_new(severity, msg) == [severity |-> severity, message |-> msg]

suselog_test_new(name) ==
    [ name |-> name, status |-> SUSELOG_STATUS_RUNNING, extra_info |-> <<>> ]

\* group->merged: no node (NULL), or a "testsuites" node with its children
NoMerged == [node |-> FALSE, children |-> <<>>]

suselog_group_new(name) ==
    [ name |-> name, autoname |-> 0, stats |-> suselog_stats_zero, id |-> 0,
      tests |-> <<>>, merged |-> NoMerged ]

\* journal->writer: no writer (a null pointer), or a writer with the hooks
\* that it provides; the other hooks of the writer are null pointers.  A hook
\* gets pointers to const and reports on the console: the console of the
\* writer is the sequence of the hook calls, each with the group, the test,
\* the severity and the message that it was given.
Hooks ==
    { "begin_testsuite", "end_testsuite", "begin_group", "end_group",
      "begin_test", "end_test", "message" }

NoWriter == [present |-> FALSE, hooks |-> {}, console |-> <<>>]

suselog_writer(hooks) == [present |-> TRUE, hooks |-> hooks, console |-> <<>>]

\* the hooks of suselog_writer_normal()
suselog_writer_normal ==
    suselog_writer({ "end_testsuite", "begin_group", "begin_test", "end_test",
                     "message" })

\* the hook is called if the journal has a writer and the writer has the hook:
\* the writer after the call
WriterCall(writer, hook, g, t, severity, message) ==
    IF writer.present /\ hook \in writer.hooks
    THEN [writer EXCEPT !.console =
            Append(@, [hook |-> hook, g |-> g, t |-> t,
                       severity |-> severity, message |-> message])]
    ELSE writer

suselog_writer_begin_testsuite(writer) ==
    WriterCall(writer, "begin_testsuite", 0, 0, NULL, NULL)

suselog_writer_begin_group(writer, group) ==
    WriterCall(writer, "begin_group", group, 0, NULL, NULL)

suselog_writer_end_group(writer, group) ==
    WriterCall(writer, "end_group", group, 0, NULL, NULL)

suselog_writer_begin_test(writer, ct) ==
    WriterCall(writer, "begin_test", ct.g, ct.t, NULL, NULL)

suselog_writer_end_test(writer, ct) ==
    WriterCall(writer, "end_test", ct.g, ct.t, NULL, NULL)

journal_writer_message(writer, ct, severity, message) ==
    WriterCall(writer, "message", ct.g, ct.t, severity, message)

suselog_journal_new(name, writer) ==
    [ name |-> name, autoname |-> 0, stats |-> suselog_stats_zero,
      max_name_level |-> SUSELOG_LEVEL_GROUP,
      systemout_level |-> SUSELOG_LEVEL_TEST,
      num_groups |-> 0, groups |-> <<>>,
      cur_group |-> 0, cur_test |-> NoTest,
      writer |-> suselog_writer_begin_testsuite(writer),
      fault |-> FALSE, exited |-> FALSE ]

suselog_current_group(J) == J.cur_group
suselog_current_test(J) == J.cur_test

CurTest(J) == J.groups[J.cur_test.g].tests[J.cur_test.t]

__suselog_test_running(J) ==
    IF J.cur_test = NoTest THEN FALSE
    ELSE CurTest(J).status = SUSELOG_STATUS_RUNNING

\* LIST_APPEND(&test->extra_info, suselog_info_new(severity, msg))
__suselog_test_log_extra(J, ct, severity, msg) ==
    [J EXCEPT !.groups[ct.g].tests[ct.t].extra_info =
                    Append(@, suselog_info_new(severity, msg))]

\* keeps one record per severity: a later message replaces the earlier one
__suselog_vlogmsg_replace(J, severity, msg) ==
    IF suselog_current_test(J) = NoTest THEN J
    ELSE LET ct == suselog_current_test(J)
             infos == CurTest(J).extra_info
         IN IF \E i \in 1..Len(infos) : infos[i].severity = severity
            THEN [J EXCEPT !.groups[ct.g].tests[ct.t].extra_info =
                    [i \in 1..Len(infos) |->
                        IF infos[i].severity = severity
                        THEN suselog_info_new(severity, msg)
                        ELSE infos[i]]]
            ELSE __suselog_test_log_extra(J, ct, severity, msg)

\* the message goes to the record only when the writer has no message hook
__suselog_vlogmsg_either(J, severity, msg) ==
    IF suselog_current_test(J) # NoTest
    THEN IF J.writer.present /\ "message" \in J.writer.hooks
         THEN [J EXCEPT !.writer =
                    journal_writer_message(@, suselog_current_test(J), severity, msg)]
         ELSE __suselog_test_log_extra(J, suselog_current_test(J), severity, msg)
    ELSE J

__suselog_vlogmsg(J, severity, msg) ==
    IF suselog_current_test(J) # NoTest
    THEN [__suselog_test_log_extra(J, suselog_current_test(J), severity, msg)
            EXCEPT !.writer =
                    journal_writer_message(@, suselog_current_test(J), severity, msg)]
    ELSE J

suselog_warning(J, msg) == __suselog_vlogmsg(J, "WARNING", msg)
suselog_info(J, msg) == __suselog_vlogmsg(J, "INFO", msg)

ConflictMsg(old, new) ==
    "conflicting test stati - " \o ToString(old) \o " vs " \o ToString(new)

\* without the conflict check: a later status overwrites the stored one
suselog_test_finish_overwrite(J, status) ==
    IF J.cur_test = NoTest THEN J
    ELSE LET ct == J.cur_test
             test == CurTest(J)
             group == suselog_current_group(J)
             J2 == IF test.status = SUSELOG_STATUS_RUNNING
                   THEN IF group = 0
                        THEN [J EXCEPT !.fault = TRUE]
                        ELSE [J EXCEPT !.groups[group].stats =
                                suselog_stats_update(@, status)]
                   ELSE J
         IN [J2 EXCEPT !.groups[ct.g].tests[ct.t].status = status]

\* without the "still RUNNING" check: every accepted finish is counted
suselog_test_finish_recount(J, status) ==
    IF J.cur_test = NoTest THEN J
    ELSE LET ct == J.cur_test
             test == CurTest(J)
         IN IF test.status # SUSELOG_STATUS_RUNNING /\ test.status # status
            THEN suselog_warning(J, ConflictMsg(test.status, status))
            ELSE LET group == suselog_current_group(J)
                     J2 == IF group = 0
                           THEN [J EXCEPT !.fault = TRUE]
                           ELSE [J EXCEPT !.groups[group].stats =
                                    suselog_stats_update(@, status)]
                 IN [J2 EXCEPT !.groups[ct.g].tests[ct.t].status = status]

\* counts the rejected status in the statistics of the group
suselog_test_finish_countconflict(J, status) ==
    IF J.cur_test = NoTest THEN J
    ELSE LET ct == J.cur_test
             test == CurTest(J)
             group == suselog_current_group(J)
         IN IF test.status # SUSELOG_STATUS_RUNNING /\ test.status # status
            THEN LET J1 == suselog_warning(J, ConflictMsg(test.status, status))
                 IN IF group = 0 THEN J1
                    ELSE [J1 EXCEPT !.groups[group].stats =
                                        suselog_stats_update(@, status)]
            ELSE LET J2 == IF test.status = SUSELOG_STATUS_RUNNING
                           THEN IF group = 0
                                THEN [J EXCEPT !.fault = TRUE]
                                ELSE [J EXCEPT !.groups[group].stats =
                                        suselog_stats_update(@, status)]
                           ELSE J
                 IN [J2 EXCEPT !.groups[ct.g].tests[ct.t].status = status]

suselog_test_finish(J, status) ==
    IF J.cur_test = NoTest THEN J
    ELSE LET ct == J.cur_test
             test == CurTest(J)
         IN IF test.status # SUSELOG_STATUS_RUNNING /\ test.status # status
            THEN suselog_warning(J, ConflictMsg(test.status, status))
            ELSE LET group == suselog_current_group(J)
                     J1 == J
                     J2 == IF test.status = SUSELOG_STATUS_RUNNING
                           THEN IF group = 0
                                THEN [J1 EXCEPT !.fault = TRUE]
                                ELSE [J1 EXCEPT !.groups[group].stats =
                                        suselog_stats_update(@, status)]
                           ELSE J1
                 IN [J2 EXCEPT !.groups[ct.g].tests[ct.t].status = status,
                               !.writer = suselog_writer_end_test(@, ct)]

suselog_success(J) == suselog_test_finish(J, SUSELOG_STATUS_SUCCESS)

suselog_success_msg(J, msg) ==
    suselog_test_finish(__suselog_vlogmsg(J, "INFO", msg), SUSELOG_STATUS_SUCCESS)

suselog_failure(J, msg) ==
    suselog_test_finish(__suselog_vlogmsg(J, "FAILURE", msg), SUSELOG_STATUS_FAILURE)

suselog_error(J, msg) ==
    suselog_test_finish(__suselog_vlogmsg(J, "ERROR", msg), SUSELOG_STATUS_ERROR)

\* takes the journal's last group when no group is current
suselog_group_finish_lastgroup(J) ==
    LET J1 == IF __suselog_test_running(J)
              THEN suselog_test_finish(J, SUSELOG_STATUS_SUCCESS)
              ELSE J
        group == IF J1.cur_group # 0 THEN J1.cur_group ELSE Len(J1.groups)
        J2 == IF group # 0
              THEN [J1 EXCEPT !.stats = suselog_stats_aggregate(@, J1.groups[group].stats)]
              ELSE J1
    IN [J2 EXCEPT !.cur_group = 0]

\* suselog_group_finish() after it has finished the running test: J1 is the
\* journal at that point
GroupFinishCurrent(J1) ==
    IF J1.cur_group # 0
    THEN [J1 EXCEPT !.stats =
                        suselog_stats_aggregate(@, J1.groups[J1.cur_group].stats),
                    !.writer = suselog_writer_end_group(@, J1.cur_group),
                    !.cur_group = 0]
    ELSE [J1 EXCEPT !.cur_group = 0]

\* calls the end_group hook before it finishes the test that is still RUNNING
suselog_group_finish_endfirst(J) ==
    IF J.cur_group = 0 THEN J
    ELSE LET J0 == [J EXCEPT !.writer = suselog_writer_end_group(@, J.cur_group)]
             J1 == IF __suselog_test_running(J0)
                   THEN suselog_test_finish(J0, SUSELOG_STATUS_SUCCESS)
                   ELSE J0
         IN [J1 EXCEPT !.stats =
                            suselog_stats_aggregate(@, J1.groups[J1.cur_group].stats),
                       !.cur_group = 0]

\* clears the current test together with the current group
suselog_group_finish_cleartest(J) ==
    [GroupFinishCurrent(IF __suselog_test_running(J)
                        THEN suselog_test_finish(J, SUSELOG_STATUS_SUCCESS)
                        ELSE J)
        EXCEPT !.cur_test = NoTest]

\* leaves the test that is still RUNNING as it is
suselog_group_finish_norunning(J) == GroupFinishCurrent(J)

suselog_group_finish(J) ==
    GroupFinishCurrent(IF __suselog_test_running(J)
                       THEN suselog_test_finish(J, SUSELOG_STATUS_SUCCESS)
                       ELSE J)

\* names an unnamed group by the group id instead of the autoname index
suselog_group_begin_byid(J, name) ==
    LET J1 == suselog_group_finish(J)
        auto == (name = NULL)
        nm == IF auto THEN suselog_autoname_next("group", J1.num_groups) ELSE name
        fullname == Snprintf(NameBufSize, J1.name \o "." \o nm)
        group == [suselog_group_new(fullname) EXCEPT !.id = J1.num_groups]
    IN [J1 EXCEPT !.autoname = IF auto THEN @ + 1 ELSE @,
                  !.num_groups = @ + 1,
                  !.groups = Append(@, group),
                  !.cur_group = Len(J1.groups) + 1,
                  !.cur_test = NoTest]

\* leaves the current test pointer on the test of the previous group
suselog_group_begin_keeptest(J, name) ==
    LET J1 == suselog_group_finish(J)
        auto == (name = NULL)
        nm == IF auto THEN suselog_autoname_next("group", J1.autoname) ELSE name
        fullname == Snprintf(NameBufSize, J1.name \o "." \o nm)
        group == [suselog_group_new(fullname) EXCEPT !.id = J1.num_groups]
    IN [J1 EXCEPT !.autoname = IF auto THEN @ + 1 ELSE @,
                  !.num_groups = @ + 1,
                  !.groups = Append(@, group),
                  !.cur_group = Len(J1.groups) + 1]

\* stores the name as given, without the journal's name in front
suselog_group_begin_verbatim(J, name) ==
    LET J1 == suselog_group_finish(J)
        auto == (name = NULL)
        nm == IF auto THEN suselog_autoname_next("group", J1.autoname) ELSE name
        group == [suselog_group_new(nm) EXCEPT !.id = J1.num_groups]
    IN [J1 EXCEPT !.autoname = IF auto THEN @ + 1 ELSE @,
                  !.num_groups = @ + 1,
                  !.groups = Append(@, group),
                  !.cur_group = Len(J1.groups) + 1,
                  !.cur_test = NoTest]

\* suselog_group_begin() after suselog_group_finish(): J1 is the journal at
\* that point
GroupBeginNew(J1, name) ==
    LET auto == (name = NULL)
        nm == IF auto THEN suselog_autoname_next("group", J1.autoname) ELSE name
        fullname == Snprintf(NameBufSize, J1.name \o "." \o nm)
        group == [suselog_group_new(fullname) EXCEPT !.id = J1.num_groups]
    IN [J1 EXCEPT !.autoname = IF auto THEN @ + 1 ELSE @,
                  !.num_groups = @ + 1,
                  !.groups = Append(@, group),
                  !.cur_group = Len(J1.groups) + 1,
                  !.cur_test = NoTest,
                  !.writer = suselog_writer_begin_group(@, Len(J1.groups) + 1)]

suselog_group_begin(J, name) == GroupBeginNew(suselog_group_finish(J), name)

\* does not finish the test that is still RUNNING
suselog_test_begin_nofinish(J, name) ==
    LET J1 == IF J.cur_group = 0 THEN suselog_group_begin(J, NULL) ELSE J
        group == J1.cur_group
        gname == J1.groups[group].name
        nm == IF name = NULL \/ J1.max_name_level < SUSELOG_LEVEL_TEST
              THEN gname
              ELSE Snprintf(NameBufSize, gname \o "." \o name)
        test == suselog_test_new(nm)
    IN [J1 EXCEPT !.groups[group].tests = Append(@, test),
                  !.cur_test = [g |-> group, t |-> Len(J1.groups[group].tests) + 1],
                  !.groups[group].stats.num_tests = @ + 1]

\* ignores the journal's max name level
suselog_test_begin_anylevel(J, name) ==
    LET J1 == IF J.cur_group = 0 THEN suselog_group_begin(J, NULL) ELSE J
        group == J1.cur_group
        J2 == IF J1.cur_test # NoTest /\ CurTest(J1).status = SUSELOG_STATUS_RUNNING
              THEN suselog_test_finish(J1, SUSELOG_STATUS_SUCCESS)
              ELSE J1
        gname == J2.groups[group].name
        nm == IF name = NULL
              THEN gname
              ELSE Snprintf(NameBufSize, gname \o "." \o name)
        test == suselog_test_new(nm)
    IN [J2 EXCEPT !.groups[group].tests = Append(@, test),
                  !.cur_test = [g |-> group, t |-> Len(J2.groups[group].tests) + 1],
                  !.groups[group].stats.num_tests = @ + 1]

\* suselog_test_begin() after it has finished the running test: J2 is the
\* journal at that point, its current group is the group of the new test
TestBeginNew(J2, name) ==
    LET group == J2.cur_group
        gname == J2.groups[group].name
        nm == IF name = NULL \/ J2.max_name_level < SUSELOG_LEVEL_TEST
              THEN gname
              ELSE Snprintf(NameBufSize, gname \o "." \o name)
        test == suselog_test_new(nm)
    IN [J2 EXCEPT !.groups[group].tests = Append(@, test),
                  !.cur_test = [g |-> group, t |-> Len(J2.groups[group].tests) + 1],
                  !.groups[group].stats.num_tests = @ + 1,
                  !.writer = suselog_writer_begin_test(
                                @, [g |-> group, t |-> Len(J2.groups[group].tests) + 1])]

\* suselog_test_begin() once a group is current: J1 is the journal at that point
TestBeginInGroup(J1, name) ==
    TestBeginNew(IF J1.cur_test # NoTest /\ CurTest(J1).status = SUSELOG_STATUS_RUNNING
                 THEN suselog_test_finish(J1, SUSELOG_STATUS_SUCCESS)
                 ELSE J1,
                 name)

suselog_test_begin(J, name) ==
    TestBeginInGroup(IF J.cur_group = 0 THEN suselog_group_begin(J, NULL) ELSE J, name)

suselog_finish(J) == suselog_group_finish(J)

\* the name accessors return common.name
suselog_group_name(group) == group.name
suselog_test_name(test) == test.name

suselog_journal_set_max_name_level(J, level) ==
    [J EXCEPT !.max_name_level = level]

suselog_journal_set_systemout_level(J, level) ==
    [J EXCEPT !.systemout_level = level]

(***************************************************************************)
(* Recording of output (suselog_record_stdout and friends).  The data are  *)
(* bytes.  The library never calls setlocale: the LC_CTYPE category of the *)
(* process is what the program using the library has set, the "C" locale   *)
(* of a program that has set none, or a UTF-8 locale.                      *)
(***************************************************************************)
OctalDigits(cc) ==
    ToString(cc \div 64) \o ToString((cc \div 8) % 8) \o ToString(cc % 8)

\* "%o" for "%03o": the octal digits are not padded to three
__escape_one_char_unpadded(cc) ==
    CASE cc = 12 -> "\\f"
      [] cc = 11 -> "\\v"
      [] cc = 13 -> "\\r"
      [] cc = 0 -> "\\0"
      [] cc < 8 -> "\\" \o ToString(cc)
      [] cc \in 8..63 -> "\\" \o ToString(cc \div 8) \o ToString(cc % 8)
      [] OTHER -> "\\" \o OctalDigits(cc)

__escape_one_char(cc) ==
    CASE cc = 12 -> "\\f"
      [] cc = 11 -> "\\v"
      [] cc = 13 -> "\\r"
      [] cc = 0 -> "\\0"
      [] OTHER -> "\\" \o OctalDigits(cc)

\* mbrtowc on the bytes of data from the i-th on, in a fresh conversion state:
\* n is the number of bytes of the character wc, -1 for an invalid sequence,
\* -2 for an incomplete one.  One-byte and two-byte characters are modelled.
mbrtowc(data, i, locale) ==
    LET b == data[i]
    IN IF b < 128 THEN [n |-> IF b = 0 THEN 0 ELSE 1, wc |-> b]
       ELSE IF locale = "C" THEN [n |-> -1, wc |-> 0]
       ELSE IF b \in 194..223
            THEN IF i = Len(data) THEN [n |-> -2, wc |-> 0]
                 ELSE IF data[i + 1] \in 128..191
                      THEN [n |-> 2, wc |-> (b - 192) * 64 + (data[i + 1] - 128)]
                      ELSE [n |-> -1, wc |-> 0]
            ELSE [n |-> -1, wc |-> 0]

\* iswprint of a character below U+0100: U+0000..U+001F, U+007F and
\* U+0080..U+009F are control characters
iswprint(wc) == wc \in 32..126 \/ wc \in 161..255

\* the bytes the model copies as they are, as strings; a byte above 127 is
\* written as its hexadecimal value between angle brackets
Chr(cc) ==
    CASE cc = 9 -> "\t"
      [] cc = 10 -> "\n"
      [] cc = 65 -> "A"
      [] cc = 66 -> "B"
      [] cc = 133 -> "<85>"
      [] cc = 169 -> "<a9>"
      [] cc = 194 -> "<c2>"
      [] cc = 195 -> "<c3>"

\* stringbuf_append(result, data + i, n)
RECURSIVE CopyBytes(_, _, _)
CopyBytes(data, i, n) ==
    IF n = 0 THEN "" ELSE Chr(data[i]) \o CopyBytes(data, i + 1, n - 1)

\* __escape_one_char on each of the n bytes from the i-th on
RECURSIVE EscapeBytes(_, _, _)
EscapeBytes(data, i, n) ==
    IF n = 0 THEN ""
    ELSE __escape_one_char(data[i]) \o EscapeBytes(data, i + 1, n - 1)

\* what __escape_one_mb appends for the bytes of data from the i-th on (text)
\* and the number of bytes it has consumed (n)
__escape_one_mb(data, i, locale) ==
    IF data[i] = 0 THEN [text |-> __escape_one_char(0), n |-> 1]
    ELSE LET len == Len(data) - i + 1
             r == mbrtowc(data, i, locale)
         IN IF r.n = -2 THEN [text |-> EscapeBytes(data, i, len), n |-> len]
            ELSE IF r.n <= 0 THEN [text |-> __escape_one_char(data[i]), n |-> 1]
            ELSE IF r.wc \in {12, 11, 13}
                 THEN [text |-> __escape_one_char(r.wc), n |-> r.n]
            ELSE IF iswprint(r.wc) \/ r.wc = 10 \/ r.wc = 9
                 THEN [text |-> CopyBytes(data, i, r.n), n |-> r.n]
            ELSE [text |-> EscapeBytes(data, i, r.n), n |-> r.n]

RECURSIVE EscapeFrom(_, _, _)
EscapeFrom(data, i, locale) ==
    IF i > Len(data) THEN ""
    ELSE LET r == __escape_one_mb(data, i, locale)
         IN r.text \o EscapeFrom(data, i + r.n, locale)

\* ub: what strdup does with the null pointer that the string buffer holds when
\* no byte was appended (len = 0): the process crashes, or a null message is
\* stored
__suselog_test_log_output(J, ct, severity, data, locale, ub) ==
    IF Len(data) = 0
    THEN IF ub = "crash"
         THEN [J EXCEPT !.fault = TRUE]
         ELSE __suselog_test_log_extra(J, ct, severity, NULL)
    ELSE __suselog_test_log_extra(J, ct, severity, EscapeFrom(data, 1, locale))

\* begins a test for the output when no test is current
suselog_record_stdout_anytime(J, data, locale, ub) ==
    LET J1 == IF J.cur_test # NoTest THEN J ELSE suselog_test_begin(J, NULL)
    IN __suselog_test_log_output(J1, J1.cur_test, "STDOUT", data, locale, ub)

suselog_record_stdout(J, data, locale, ub) ==
    IF J.cur_test # NoTest
    THEN __suselog_test_log_output(J, J.cur_test, "STDOUT", data, locale, ub)
    ELSE J

suselog_record_stderr(J, data, locale, ub) ==
    IF J.cur_test # NoTest
    THEN __suselog_test_log_output(J, J.cur_test, "STDERR", data, locale, ub)
    ELSE J

suselog_record_buffer(J, data, locale, ub) ==
    IF J.cur_test # NoTest
    THEN __suselog_test_log_output(J, J.cur_test, "INFO", data, locale, ub)
    ELSE J

suselog_logmsg(J, severity, msg) == __suselog_vlogmsg(J, severity, msg)

\* the first message of the severity, or NULL
RECURSIVE GetMessageFrom(_, _, _)
GetMessageFrom(infos, severity, i) ==
    IF i > Len(infos) THEN NULL
    ELSE IF infos[i].severity = severity THEN infos[i].message
    ELSE GetMessageFrom(infos, severity, i + 1)

\* the last message of the severity, or NULL
suselog_test_get_message_last(test, severity) ==
    LET hits == { i \in 1..Len(test.extra_info) :
                    test.extra_info[i].severity = severity }
    IN IF hits = {} THEN NULL
       ELSE test.extra_info[CHOOSE i \in hits : \A k \in hits : k <= i].message

suselog_test_get_message(test, severity) ==
    GetMessageFrom(test.extra_info, severity, 1)

(***************************************************************************)
(* The JUnit tree of a journal.  A node has a name, attributes in the      *)
(* order they were added, character data (or NULL) and children.  Every    *)
(* call of the model passes the description Description; the time,         *)
(* timestamp and hostname attributes are measurements of the environment   *)
(* and are left out of the tree.                                           *)
(***************************************************************************)
Description == "d"

XmlNode(name, attrs, cdata, children) ==
    [name |-> name, attrs |-> attrs, cdata |-> cdata, children |-> children]

xml_cdata_new(data) == XmlNode("![CDATA[", <<>>, data, <<>>)

\* "%4u": the number, with blanks in front up to four characters
Width4(n) ==
    LET digits == ToString(n)
    IN IF Len(digits) >= 4 THEN digits
       ELSE SubSeq("    ", 1, 4 - Len(digits)) \o digits

\* "%02u": the number, with a zero in front up to two characters
ZeroPad2(n) == IF n < 10 THEN "0" \o ToString(n) ELSE ToString(n)

\* tm: the broken-down local time of tv->tv_sec
__suselog_junit_timestamp(tm) ==
    Snprintf(TimeBufSize,
             Width4(tm.tm_year + 1900) \o "-" \o ZeroPad2(tm.tm_mon)
                \o "-" \o ZeroPad2(tm.tm_mday) \o "T" \o ZeroPad2(tm.tm_hour)
                \o ":" \o ZeroPad2(tm.tm_min) \o ":" \o ZeroPad2(tm.tm_sec))

\* shows the errors as failures and the failures as errors
__suselog_junit_stats_swapped(stats) ==
    << <<"tests", ToString(stats.num_tests)>>,
       <<"failures", ToString(stats.num_errors)>>,
       <<"disabled", ToString(stats.num_disabled)>>,
       <<"errors", ToString(stats.num_failed)>> >>

__suselog_junit_stats(stats) ==
    << <<"tests", ToString(stats.num_tests)>>,
       <<"failures", ToString(stats.num_failed)>>,
       <<"disabled", ToString(stats.num_disabled)>>,
       <<"errors", ToString(stats.num_errors)>> >>

SeverityTag(severity) ==
    CASE severity = "FAILURE" -> "FAIL: "
      [] severity = "ERROR" -> "ERROR: "
      [] severity = "STDOUT" -> "standard output:\n"
      [] severity = "STDERR" -> "standard output:\n"
      [] OTHER -> ""

\* the bytes fputs writes for a message; a null message (see
\* __suselog_test_log_output) writes nothing where it does not crash
MessageText(message) == IF message = NULL THEN "" ELSE message

EndsInNewline(str) == Len(str) > 0 /\ SubSeq(str, Len(str), Len(str)) = "\n"

RECURSIVE PreStringFrom(_, _)
PreStringFrom(infos, i) ==
    IF i > Len(infos) THEN ""
    ELSE LET text == MessageText(infos[i].message)
         IN SeverityTag(infos[i].severity) \o text
                \o (IF Len(text) > 0 /\ ~EndsInNewline(text) THEN "\n" ELSE "")
                \o PreStringFrom(infos, i + 1)

__suselog_junit_pre_string_append(test) == PreStringFrom(test.extra_info, 1)

\* no element when the collected text is empty, else one element
__suselog_junit_pre_string(name, type, test, severity) ==
    LET string == __suselog_junit_pre_string_append(test)
        msg == suselog_test_get_message(test, severity)
    IN IF string = "" THEN <<>>
       ELSE << XmlNode(name,
                       << <<"type", type>> >> \o
                            (IF msg # NULL THEN << <<"message", msg>> >> ELSE <<>>),
                       NULL, << xml_cdata_new(string) >>) >>

__suselog_junit_test_system_out(test) ==
    LET string == __suselog_junit_pre_string_append(test)
    IN IF string = "" THEN <<>>
       ELSE << XmlNode("system-out", <<>>, NULL, << xml_cdata_new(string) >>) >>

__suselog_junit_test(test) ==
    LET base == << <<"classname", test.name>>, <<"name", Description>> >>
    IN CASE test.status = SUSELOG_STATUS_SUCCESS ->
                XmlNode("testcase", base \o << <<"status", "success">> >>, NULL, <<>>)
         [] test.status = SUSELOG_STATUS_FAILURE ->
                XmlNode("testcase", base \o << <<"status", "failure">> >>, NULL,
                        __suselog_junit_pre_string("failure", "randomFailure",
                                                   test, "FAILURE"))
         [] test.status = SUSELOG_STATUS_ERROR ->
                XmlNode("testcase", base \o << <<"status", "error">> >>, NULL,
                        __suselog_junit_pre_string("error", "randomError",
                                                   test, "ERROR"))
         [] OTHER -> XmlNode("testcase", base, NULL, <<>>)

\* the texts that Op gives for the elements of the sequence, one after another
RECURSIVE SumText(_, _, _)
SumText(Op(_), seq, i) ==
    IF i > Len(seq) THEN "" ELSE Op(seq[i]) \o SumText(Op, seq, i + 1)

RECURSIVE GroupSystemOutFrom(_, _)
GroupSystemOutFrom(tests, i) ==
    IF i > Len(tests) THEN ""
    ELSE "# " \o tests[i].name \o " (" \o Description \o ")\n"
            \o __suselog_junit_pre_string_append(tests[i])
            \o GroupSystemOutFrom(tests, i + 1)

\* without the header lines of the tests
__suselog_junit_group_system_out_noheader(group) ==
    LET string == SumText(__suselog_junit_pre_string_append, group.tests, 1)
    IN IF string = "" THEN <<>>
       ELSE << XmlNode("system-out", <<>>, NULL, << xml_cdata_new(string) >>) >>

__suselog_junit_group_system_out(group) ==
    LET string == GroupSystemOutFrom(group.tests, 1)
    IN IF string = "" THEN <<>>
       ELSE << XmlNode("system-out", <<>>, NULL, << xml_cdata_new(string) >>) >>

\* the testcase elements of the tests from the i-th on
RECURSIVE JunitTestsFrom(_, _, _)
JunitTestsFrom(tests, level, i) ==
    IF i > Len(tests) THEN <<>>
    ELSE LET child == __suselog_junit_test(tests[i])
             out == IF level = SUSELOG_LEVEL_TEST
                    THEN __suselog_junit_test_system_out(tests[i])
                    ELSE <<>>
         IN << [child EXCEPT !.children = @ \o out] >>
                \o JunitTestsFrom(tests, level, i + 1)

\* the testsuite element of a group without merged content
JunitTestsuite(J, group) ==
    XmlNode("testsuite",
            << <<"package", group.name>>, <<"name", Description>>,
               <<"id", ToString(group.id)>> >> \o __suselog_junit_stats(group.stats),
            NULL,
            JunitTestsFrom(group.tests, J.systemout_level, 1)
                \o (IF J.systemout_level = SUSELOG_LEVEL_GROUP
                    THEN __suselog_junit_group_system_out(group)
                    ELSE <<>>))

\* emits the group's own testsuite also when the group holds merged content
__suselog_junit_group_own(W, g) ==
    LET J == W.journal
        group == J.groups[g]
    IN IF group.merged.node
       THEN [journal |-> [J EXCEPT !.groups[g].merged.children = <<>>],
             children |-> W.children \o group.merged.children
                            \o << JunitTestsuite(J, group) >>]
       ELSE [journal |-> J,
             children |-> W.children \o << JunitTestsuite(J, group) >>]

\* W: the journal and the children of the root so far.  The children of the
\* group's merged node are moved under the root; else the group's testsuite
\* is appended.
__suselog_junit_group(W, g) ==
    LET J == W.journal
        group == J.groups[g]
    IN IF group.merged.node
       THEN [journal |-> [J EXCEPT !.groups[g].merged.children = <<>>],
             children |-> W.children \o group.merged.children]
       ELSE [journal |-> J,
             children |-> W.children \o << JunitTestsuite(J, group) >>]

RECURSIVE JunitGroupsFrom(_, _)
JunitGroupsFrom(W, g) ==
    IF g > Len(W.journal.groups) THEN W
    ELSE JunitGroupsFrom(__suselog_junit_group(W, g), g + 1)

\* the journal after the call and the root element
__suselog_junit_journal(J) ==
    LET J1 == suselog_finish(J)
        W == JunitGroupsFrom([journal |-> J1, children |-> <<>>], 1)
    IN [journal |-> W.journal,
        root |-> XmlNode("testsuites",
                         << <<"name", J1.name>> >> \o __suselog_junit_stats(J1.stats),
                         NULL, W.children)]

\* a test of a group that is serialized holds a null message
NullMessageWritten(J) ==
    \E g \in 1..Len(J.groups) :
        /\ ~J.groups[g].merged.node
        /\ \E t \in 1..Len(J.groups[g].tests) :
            \E i \in 1..Len(J.groups[g].tests[t].extra_info) :
                J.groups[g].tests[t].extra_info[i].message = NULL

\* the journal after the call and the documents written (none or one).
\* ub: what fputs and strlen do with a null message: the process crashes, or
\* nothing is written for it
suselog_journal_write(J, ub) ==
    IF NullMessageWritten(J) /\ ub = "crash"
    THEN [journal |-> [suselog_finish(J) EXCEPT !.fault = TRUE], out |-> <<>>]
    ELSE LET R == __suselog_junit_journal(J)
         IN [journal |-> R.journal, out |-> << R.root >>]

(***************************************************************************)
(* The written document and its reader, as far as the start tags of the    *)
(* elements go: the name of the element and its attributes                 *)
(***************************************************************************)
Char(text, i) == SubSeq(text, i, i)

xml_escape_quote(string) == string

\* " %s=\"%s\"" for an attribute with a value, " %s" for one without
xml_attr_output(attr) ==
    IF attr[2] # NULL
    THEN " " \o attr[1] \o "=\"" \o xml_escape_quote(attr[2]) \o "\""
    ELSE " " \o attr[1]

\* the start tag that xml_node_output writes for an element
xml_node_output_tag(node) ==
    "<" \o node.name \o SumText(xml_attr_output, node.attrs, 1)
        \o (IF node.cdata = NULL /\ node.children = <<>> THEN "/>" ELSE ">")

\* the elements of the tree in document order, character data left out
RECURSIVE ElementsOf(_)
ElementsFrom(ElementsOfChild(_), children) ==
    LET Rec[i \in 1..(Len(children) + 1)] ==
            IF i > Len(children) THEN <<>>
            ELSE ElementsOfChild(children[i]) \o Rec[i + 1]
    IN Rec[1]

ElementsOf(node) ==
    IF node.name = "![CDATA[" THEN <<>>
    ELSE << node >> \o ElementsFrom(ElementsOf, node.children)

\* the start tags of the document, in the order xml_node_output writes them
xml_node_output(node) ==
    LET elements == ElementsOf(node)
    IN [i \in 1..Len(elements) |-> xml_node_output_tag(elements[i])]

Letters ==
    { "a", "b", "c", "d", "e", "f", "g", "h", "i", "j", "k", "l", "m", "n", "o",
      "p", "q", "r", "s", "t", "u", "v", "w", "x", "y", "z",
      "A", "B", "C", "D", "E", "F", "G", "H", "I", "J", "K", "L", "M", "N", "O",
      "P", "Q", "R", "S", "T", "U", "V", "W", "X", "Y", "Z" }

Digits == { "0", "1", "2", "3", "4", "5", "6", "7", "8", "9" }

RECURSIVE xml_skip_space(_, _)
xml_skip_space(text, i) ==
    IF i <= Len(text) /\ Char(text, i) \in { " ", "\t", "\n", "\r" }
    THEN xml_skip_space(text, i + 1)
    ELSE i

\* the rest of an identifier: where it ends
RECURSIVE IdentifierEnd(_, _)
IdentifierEnd(text, i) ==
    IF i <= Len(text)
        /\ Char(text, i) \in Letters \cup Digits \cup { "_", "!", ":", "-" }
    THEN IdentifierEnd(text, i + 1)
    ELSE i

\* the rest of a string in double quotes: a backslash takes the next
\* character as it is, the quote ends the string
RECURSIVE QuotedStringFrom(_, _, _)
QuotedStringFrom(text, i, res) ==
    IF i > Len(text) THEN [type |-> "None", value |-> res, next |-> i]
    ELSE IF Char(text, i) = "\\"
    THEN IF i + 1 > Len(text) THEN [type |-> "None", value |-> res, next |-> i + 1]
         ELSE QuotedStringFrom(text, i + 2, res \o Char(text, i + 1))
    ELSE IF Char(text, i) = "\""
    THEN [type |-> "QuotedString", value |-> res, next |-> i + 1]
    ELSE QuotedStringFrom(text, i + 1, res \o Char(text, i))

\* the token at the first character that is not white space, read at cc
TokenAt(text, cc) ==
    IF cc > Len(text) THEN [type |-> "None", value |-> "", next |-> cc]
    ELSE CASE Char(text, cc) = ">" ->
                [type |-> "RightAngle", value |-> ">", next |-> cc + 1]
           [] Char(text, cc) = "/" ->
                IF cc + 1 <= Len(text) /\ Char(text, cc + 1) = ">"
                THEN [type |-> "RightAngleSlash", value |-> "/>", next |-> cc + 2]
                ELSE [type |-> "None", value |-> "/", next |-> cc + 1]
           [] Char(text, cc) = "=" ->
                [type |-> "Equals", value |-> "=", next |-> cc + 1]
           [] Char(text, cc) \in Letters \cup { "_", "!" } ->
                [type |-> "Identifier",
                 value |-> SubSeq(text, cc, IdentifierEnd(text, cc + 1) - 1),
                 next |-> IdentifierEnd(text, cc + 1)]
           [] Char(text, cc) = "\"" -> QuotedStringFrom(text, cc + 1, "")
           [] OTHER -> [type |-> "None", value |-> Char(text, cc), next |-> cc + 1]

\* the next token of a tag from the i-th character of the text on
xml_get_token_tag(text, i) == TokenAt(text, xml_skip_space(text, i))

\* token: the token read last; attrs: the attributes read so far
RECURSIVE TagAttributesFrom(_, _, _)
\* the attribute whose name is the token has a value if an equals sign follows
AttributeValue(text, token, attrs, next) ==
    IF next.type # "Equals"
    THEN TagAttributesFrom(text, next, Append(attrs, << token.value, NULL >>))
    ELSE IF xml_get_token_tag(text, next.next).type # "QuotedString"
    THEN [token |-> "None", attrs |-> attrs]
    ELSE TagAttributesFrom(
            text,
            xml_get_token_tag(text, xml_get_token_tag(text, next.next).next),
            Append(attrs, << token.value, xml_get_token_tag(text, next.next).value >>))

TagAttributesFrom(text, token, attrs) ==
    IF token.type \in { "RightAngle", "RightAngleQ", "RightAngleSlash" }
    THEN [token |-> token.type, attrs |-> attrs]
    ELSE IF token.type # "Identifier"
    THEN [token |-> "None", attrs |-> attrs]
    ELSE AttributeValue(text, token, attrs, xml_get_token_tag(text, token.next))

\* the attributes of a tag, read from the i-th character of the text on, and
\* the token that ended them (None: a parse error)
xml_get_tag_attributes(text, i) ==
    TagAttributesFrom(text, xml_get_token_tag(text, i), <<>>)

\* does not finish the current test
suselog_fatal_nofinish(J, msg, ub) ==
    LET J1 == suselog_logmsg(J, "ERROR", "FATAL ERROR")
        J2 == __suselog_vlogmsg(J1, "ERROR", msg)
        W == suselog_journal_write(J2, ub)
    IN [journal |-> [W.journal EXCEPT !.exited = TRUE], out |-> W.out]

\* exit(1) after the report W is written: no later call acts on the journal
FatalExit(W) == [journal |-> [W.journal EXCEPT !.exited = TRUE], out |-> W.out]

\* logs, finishes the current test as ERROR, writes the report, exit(1)
suselog_fatal(J, msg, ub) ==
    LET J1 == suselog_logmsg(J, "ERROR", "FATAL ERROR")
        J2 == __suselog_vlogmsg(J1, "ERROR", msg)
        J3 == suselog_test_finish(J2, SUSELOG_STATUS_ERROR)
    IN FatalExit(suselog_journal_write(J3, ub))

(***************************************************************************)
(* Merging an external report.  A file is unreadable (no document) or a    *)
(* document, whose root holds the top-level elements of the file.          *)
(***************************************************************************)
\* the "testsuite" children of a collection from the i-th on, which
\* xml_node_reparent moves to the end of the merged node's children
RECURSIVE ReparentFrom(_, _)
ReparentFrom(children, i) ==
    IF i > Len(children) THEN <<>>
    ELSE (IF children[i].name # "testsuite" THEN <<>> ELSE << children[i] >>)
            \o ReparentFrom(children, i + 1)

\* merged: the group's merged node after the collections from the i-th on;
\* ok: no collection had an unexpected name
RECURSIVE MergeFrom(_, _, _)
MergeFrom(merged, collections, i) ==
    IF i > Len(collections) THEN [merged |-> merged, ok |-> TRUE]
    ELSE IF collections[i].name # "testsuites" THEN [merged |-> merged, ok |-> FALSE]
    ELSE IF collections[i].children # <<>>
         THEN MergeFrom([node |-> TRUE,
                         children |-> merged.children
                                        \o ReparentFrom(collections[i].children, 1)],
                        collections, i + 1)
         ELSE MergeFrom(merged, collections, i + 1)

\* gives up at the first child that is not a "testsuite"
suselog_journal_merge_stop(J, file) ==
    LET J1 == IF J.cur_group = 0 THEN suselog_group_begin(J, NULL) ELSE J
        group == J1.cur_group
        found == 0
        Stop(col) == IF \E k \in 1..Len(col.children) : col.children[k].name # "testsuite"
                     THEN [col EXCEPT !.children =
                            SubSeq(@, 1, (CHOOSE k \in 1..Len(@) :
                                            /\ @[k].name # "testsuite"
                                            /\ \A h \in 1..(k - 1) : @[h].name = "testsuite") - 1)]
                     ELSE col
    IN IF ~file.doc THEN [journal |-> J1, rv |-> -1]
       ELSE LET M == MergeFrom(J1.groups[group].merged,
                               [c \in 1..Len(file.children) |-> Stop(file.children[c])], 1)
            IN [journal |-> [J1 EXCEPT !.groups[group].merged = M.merged],
                rv |-> IF M.ok /\ found # 0 THEN 0 ELSE -1]

\* the call once the journal has a current group: reads the file and moves
\* the test suites it finds to the group's merged node; found is never set
MergeIntoCurrent(J, file) ==
    LET found == 0
    IN IF ~file.doc THEN [journal |-> J, rv |-> -1]
       ELSE LET M == MergeFrom(J.groups[J.cur_group].merged, file.children, 1)
            IN [journal |-> [J EXCEPT !.groups[J.cur_group].merged = M.merged],
                rv |-> IF M.ok /\ found # 0 THEN 0 ELSE -1]

\* without a current group, merges into the last group the journal has
suselog_journal_merge_lastgroup(J, file) ==
    MergeIntoCurrent(IF J.cur_group # 0 THEN J
                     ELSE IF J.groups = <<>> THEN suselog_group_begin(J, NULL)
                     ELSE [J EXCEPT !.cur_group = Len(J.groups)],
                     file)

\* the journal after the call and the return value; without a current group
\* the anonymous group is begun before the file is read
suselog_journal_merge(J, file) ==
    MergeIntoCurrent(IF J.cur_group = 0 THEN suselog_group_begin(J, NULL) ELSE J, file)

(***************************************************************************)
(* Guards that keep the model finite                                       *)
(***************************************************************************)
RECURSIVE SumSeq(_, _, _)
SumSeq(f(_), seq, i) ==
    IF i > Len(seq) THEN 0 ELSE f(seq[i]) + SumSeq(f, seq, i + 1)

NumTests(group) == Len(group.tests)
TestCount(J) == SumSeq(NumTests, J.groups, 1)

NumInfo(test) == Len(test.extra_info)
GroupLogCount(group) == SumSeq(NumInfo, group.tests, 1)
LogCount(J) == SumSeq(GroupLogCount, J.groups, 1)

\* a call that may log is made while the journal holds fewer than MaxLog records
LogRoom(J) == LogCount(J) < MaxLog

\* room for one more group
GroupRoom(J, maxg) == Len(J.groups) < maxg

\* room for one more test (and for the group test_begin may have to create)
TestRoom(J, maxg, maxt) ==
    /\ TestCount(J) < maxt
    /\ (J.cur_group = 0 => GroupRoom(J, maxg))

(***************************************************************************)
(* A call: the journal becomes what the function returns; last remembers   *)
(* the call (its name, its argument, the status it asks for or -1), the    *)
(* current group and the current test's status before it, the value it     *)
(* returns and the reports it has written.  No call is made after the      *)
(* process has crashed or exited.                                          *)
(***************************************************************************)
PreStatus(J) == IF J.cur_test = NoTest THEN -1 ELSE CurTest(J).status

\* a call returning rv that has written the reports of the sequence out
CallOut(op, arg, status, J, rv, out) ==
    /\ ~journal.fault
    /\ ~journal.exited
    /\ journal' = J
    /\ last' = [op |-> op, arg |-> arg, status |-> status,
                pre_group |-> journal.cur_group,
                pre_status |-> PreStatus(journal),
                rv |-> rv, out |-> out]

\* a call of a void function that writes no report
Call(op, arg, status, J) == CallOut(op, arg, status, J, NULL, <<>>)

(***************************************************************************)
(* The calls of src/suselog/library with unnamed groups and tests          *)
(***************************************************************************)
Op_group_begin ==
    /\ GroupRoom(journal, MaxGroups)
    /\ Call("group_begin", NULL, -1, suselog_group_begin(journal, NULL))

Op_group_finish ==
    Call("group_finish", NULL, -1, suselog_group_finish(journal))

Op_test_begin ==
    /\ TestRoom(journal, MaxGroups, MaxTests)
    /\ Call("test_begin", NULL, -1, suselog_test_begin(journal, NULL))

Op_test_finish ==
    \E status \in suselog_status_t :
        /\ LogRoom(journal)
        /\ Call("test_finish", NULL, status, suselog_test_finish(journal, status))

Op_success ==
    /\ LogRoom(journal)
    /\ Call("success", NULL, SUSELOG_STATUS_SUCCESS, suselog_success(journal))

Op_success_msg ==
    \E msg \in Messages :
        /\ LogRoom(journal)
        /\ Call("success_msg", msg, SUSELOG_STATUS_SUCCESS, suselog_success_msg(journal, msg))

Op_failure ==
    \E msg \in Messages :
        /\ LogRoom(journal)
        /\ Call("failure", msg, SUSELOG_STATUS_FAILURE, suselog_failure(journal, msg))

Op_error ==
    \E msg \in Messages :
        /\ LogRoom(journal)
        /\ Call("error", msg, SUSELOG_STATUS_ERROR, suselog_error(journal, msg))

Op_info ==
    \E msg \in Messages :
        /\ LogRoom(journal)
        /\ Call("info", msg, -1, suselog_info(journal, msg))

Op_warning ==
    \E msg \in Messages :
        /\ LogRoom(journal)
        /\ Call("warning", msg, -1, suselog_warning(journal, msg))

Op_finish ==
    Call("finish", NULL, -1, suselog_finish(journal))

Init ==
    /\ \E name \in JournalNames : journal = suselog_journal_new(name, NoWriter)
    /\ last = [op |-> "journal_new", arg |-> NULL, status |-> -1,
               pre_group |-> 0, pre_status |-> -1, rv |-> NULL, out |-> <<>>]

Next ==
    \/ Op_group_begin
    \/ Op_group_finish
    \/ Op_test_begin
    \/ Op_test_finish
    \/ Op_success
    \/ Op_success_msg
    \/ Op_failure
    \/ Op_error
    \/ Op_info
    \/ Op_warning
    \/ Op_finish

Spec == Init /\ [][Next]_vars

(***************************************************************************)
(* The naming calls of src/suselog/library: named and unnamed groups and   *)
(* tests under both name levels                                            *)
(***************************************************************************)
Names_group_begin ==
    \E name \in GroupNames :
        /\ GroupRoom(journal, MaxNamedGroups)
        /\ Call("group_begin", name, -1, suselog_group_begin(journal, name))

Names_group_finish ==
    Call("group_finish", NULL, -1, suselog_group_finish(journal))

Names_test_begin ==
    \E name \in TestNames :
        /\ TestRoom(journal, MaxNamedGroups, MaxNamedTests)
        /\ Call("test_begin", name, -1, suselog_test_begin(journal, name))

Names_success ==
    Call("success", NULL, SUSELOG_STATUS_SUCCESS, suselog_success(journal))

Names_set_max_name_level ==
    \E level \in suselog_level_t :
        Call("set_max_name_level", ToString(level), -1,
             suselog_journal_set_max_name_level(journal, level))

NextNames ==
    \/ Names_group_begin
    \/ Names_group_finish
    \/ Names_test_begin
    \/ Names_success
    \/ Names_set_max_name_level

SpecNames == Init /\ [][NextNames]_vars

(***************************************************************************)
(* The logging, recording and reporting calls of src/suselog/library on    *)
(* tests that hold several records                                         *)
(***************************************************************************)
RecordRoom(J) == LogCount(J) < MaxRecords

Log_group_begin ==
    /\ GroupRoom(journal, MaxLogGroups)
    /\ Call("group_begin", NULL, -1, suselog_group_begin(journal, NULL))

Log_group_finish ==
    Call("group_finish", NULL, -1, suselog_group_finish(journal))

Log_finish ==
    Call("finish", NULL, -1, suselog_finish(journal))

Log_test_begin ==
    /\ TestRoom(journal, MaxLogGroups, MaxLogTests)
    /\ Call("test_begin", NULL, -1, suselog_test_begin(journal, NULL))

Log_test_finish ==
    \E status \in suselog_status_t :
        /\ RecordRoom(journal)
        /\ Call("test_finish", NULL, status, suselog_test_finish(journal, status))

Log_success ==
    /\ RecordRoom(journal)
    /\ Call("success", NULL, SUSELOG_STATUS_SUCCESS, suselog_success(journal))

Log_failure ==
    \E msg \in Messages :
        /\ RecordRoom(journal)
        /\ Call("failure", msg, SUSELOG_STATUS_FAILURE, suselog_failure(journal, msg))

Log_error ==
    \E msg \in Messages :
        /\ RecordRoom(journal)
        /\ Call("error", msg, SUSELOG_STATUS_ERROR, suselog_error(journal, msg))

Log_info ==
    \E msg \in LogMessages :
        /\ RecordRoom(journal)
        /\ Call("info", msg, -1, suselog_info(journal, msg))

Log_warning ==
    \E msg \in LogMessages :
        /\ RecordRoom(journal)
        /\ Call("warning", msg, -1, suselog_warning(journal, msg))

Log_logmsg ==
    \E severity \in suselog_severity_t, msg \in LogMessages :
        /\ RecordRoom(journal)
        /\ Call("logmsg", [severity |-> severity, message |-> msg], -1,
                suselog_logmsg(journal, severity, msg))

Log_record_stdout ==
    \E data \in RecordData, locale \in Locales, ub \in UbOutcomes :
        /\ RecordRoom(journal)
        /\ Call("record_stdout", data, -1,
                suselog_record_stdout(journal, data, locale, ub))

Log_record_stderr ==
    \E data \in RecordData, locale \in Locales, ub \in UbOutcomes :
        /\ RecordRoom(journal)
        /\ Call("record_stderr", data, -1,
                suselog_record_stderr(journal, data, locale, ub))

Log_record_buffer ==
    \E data \in RecordData, locale \in Locales, ub \in UbOutcomes :
        /\ RecordRoom(journal)
        /\ Call("record_buffer", data, -1,
                suselog_record_buffer(journal, data, locale, ub))

Log_fatal ==
    \E msg \in Messages, ub \in UbOutcomes :
        LET W == suselog_fatal(journal, msg, ub)
        IN CallOut("fatal", msg, SUSELOG_STATUS_ERROR, W.journal, NULL, W.out)

NextLog ==
    \/ Log_group_begin
    \/ Log_group_finish
    \/ Log_finish
    \/ Log_test_begin
    \/ Log_test_finish
    \/ Log_success
    \/ Log_failure
    \/ Log_error
    \/ Log_info
    \/ Log_warning
    \/ Log_logmsg
    \/ Log_record_stdout
    \/ Log_record_stderr
    \/ Log_record_buffer
    \/ Log_fatal

SpecLog == Init /\ [][NextLog]_vars

(***************************************************************************)
(* Reading the messages of tests back, from the test and from the written  *)
(* report                                                                  *)
(***************************************************************************)
Query_test_begin ==
    /\ TestRoom(journal, MaxQueryGroups, MaxQueryTests)
    /\ Call("test_begin", NULL, -1, suselog_test_begin(journal, NULL))

Query_logmsg ==
    \E severity \in QuerySeverities, msg \in LogMessages :
        /\ LogCount(journal) < MaxQueryRecords
        /\ Call("logmsg", [severity |-> severity, message |-> msg], -1,
                suselog_logmsg(journal, severity, msg))

Query_test_finish ==
    \E status \in suselog_status_t :
        /\ LogCount(journal) < MaxQueryRecords
        /\ Call("test_finish", NULL, status, suselog_test_finish(journal, status))

\* suselog_test_get_message on any test of the journal
Query_get_message ==
    \E g \in 1..Len(journal.groups) :
        \E t \in 1..Len(journal.groups[g].tests), severity \in suselog_severity_t :
            CallOut("get_message", [g |-> g, t |-> t, severity |-> severity], -1,
                    journal,
                    suselog_test_get_message(journal.groups[g].tests[t], severity),
                    <<>>)

Query_write ==
    \E ub \in UbOutcomes :
        LET W == suselog_journal_write(journal, ub)
        IN CallOut("write", NULL, -1, W.journal, NULL, W.out)

NextQuery ==
    \/ Query_test_begin
    \/ Query_logmsg
    \/ Query_test_finish
    \/ Query_get_message
    \/ Query_write

SpecQuery == Init /\ [][NextQuery]_vars

(***************************************************************************)
(* Merging external reports into the groups of a journal and writing the   *)
(* report                                                                  *)
(***************************************************************************)
\* the elements an external report is made of
ExternalNodes ==
    { XmlNode("testsuite", << <<"name", "a">> >>, NULL,
              << XmlNode("testcase", << <<"name", "x">> >>, NULL, <<>>) >>),
      XmlNode("testsuite", << <<"name", "b">> >>, NULL, <<>>),
      XmlNode("properties", <<>>, NULL, <<>>) }

SeqsUpTo(S, n) == UNION { [1..k -> S] : k \in 0..n }

\* the top-level elements of a file: "testsuites" collections, or a "testsuite"
\* that is not wrapped in a collection
TopLevelNodes ==
    { XmlNode("testsuites", <<>>, NULL, children) :
            children \in SeqsUpTo(ExternalNodes, MaxChildren) }
    \cup { n \in ExternalNodes : n.name = "testsuite" /\ n.children = <<>> }

\* what xml_document_read returns: no document, or the top-level elements
NumChildren(node) == Len(node.children)

MergeFiles ==
    { [doc |-> FALSE, children |-> <<>>] }
    \cup { [doc |-> TRUE, children |-> c] :
                c \in { d \in SeqsUpTo(TopLevelNodes, MaxCollections) :
                            SumSeq(NumChildren, d, 1) <= MaxChildren } }

NumMerged(group) == Len(group.merged.children)
MergedCount(J) == SumSeq(NumMerged, J.groups, 1)

Merge_group_begin ==
    /\ GroupRoom(journal, MaxMergeGroups)
    /\ Call("group_begin", NULL, -1, suselog_group_begin(journal, NULL))

Merge_test_begin ==
    /\ TestRoom(journal, MaxMergeGroups, MaxMergeTests)
    /\ Call("test_begin", NULL, -1, suselog_test_begin(journal, NULL))

Merge_failure ==
    \E msg \in Messages :
        /\ LogRoom(journal)
        /\ Call("failure", msg, SUSELOG_STATUS_FAILURE, suselog_failure(journal, msg))

Merge_merge ==
    \E file \in MergeFiles :
        /\ MergedCount(journal) < MaxMerged
        /\ journal.cur_group = 0 => GroupRoom(journal, MaxMergeGroups)
        /\ LET R == suselog_journal_merge(journal, file)
           IN CallOut("merge", file, -1, R.journal, R.rv, <<>>)

Merge_write ==
    \E ub \in UbOutcomes :
        LET W == suselog_journal_write(journal, ub)
        IN CallOut("write", NULL, -1, W.journal, NULL, W.out)

NextMerge ==
    \/ Merge_group_begin
    \/ Merge_test_begin
    \/ Merge_failure
    \/ Merge_merge
    \/ Merge_write

SpecMerge == Init /\ [][NextMerge]_vars

(***************************************************************************)
(* Recording output on the current test: the bytes of the output and the   *)
(* locale of the process                                                   *)
(***************************************************************************)
\* NUL, a control character without a symbolic escape, tab, newline, vertical
\* tab, form feed, carriage return, "A", "B", DEL, and the bytes of the UTF-8
\* characters U+0085 (c2 85), U+00A9 (c2 a9), U+00C5 (c3 85), U+00E9 (c3 a9)
OutputBytes == { 0, 1, 9, 10, 11, 12, 13, 65, 66, 127, 133, 169, 194, 195 }

OutputData == SeqsUpTo(OutputBytes, MaxDataLen)

Escape_test_begin ==
    /\ TestRoom(journal, 1, 1)
    /\ Call("test_begin", NULL, -1, suselog_test_begin(journal, NULL))

Escape_record_stdout ==
    /\ journal.cur_test # NoTest
    /\ LogCount(journal) < MaxEscapeRecords
    /\ \E data \in OutputData, locale \in Locales, ub \in UbOutcomes :
            Call("record_stdout", [data |-> data, locale |-> locale], -1,
                 suselog_record_stdout(journal, data, locale, ub))

Escape_record_stderr ==
    /\ journal.cur_test # NoTest
    /\ LogCount(journal) < MaxEscapeRecords
    /\ \E data \in OutputData, locale \in Locales, ub \in UbOutcomes :
            Call("record_stderr", [data |-> data, locale |-> locale], -1,
                 suselog_record_stderr(journal, data, locale, ub))

Escape_record_buffer ==
    /\ journal.cur_test # NoTest
    /\ LogCount(journal) < MaxEscapeRecords
    /\ \E data \in OutputData, locale \in Locales, ub \in UbOutcomes :
            Call("record_buffer", [data |-> data, locale |-> locale], -1,
                 suselog_record_buffer(journal, data, locale, ub))

NextEscape ==
    \/ Escape_test_begin
    \/ Escape_record_stdout
    \/ Escape_record_stderr
    \/ Escape_record_buffer

SpecEscape == Init /\ [][NextEscape]_vars

(***************************************************************************)
(* Journals with a writer: no writer, or a writer with any of the hooks    *)
(***************************************************************************)
Writers == { NoWriter } \cup { suselog_writer(hooks) : hooks \in SUBSET Hooks }

ConsoleRoom(J) == Len(J.writer.console) < MaxConsole

InitWriter ==
    /\ \E name \in JournalNames, writer \in Writers :
            journal = suselog_journal_new(name, writer)
    /\ last = [op |-> "journal_new", arg |-> NULL, status |-> -1,
               pre_group |-> 0, pre_status |-> -1, rv |-> NULL, out |-> <<>>]

Writer_group_begin ==
    /\ GroupRoom(journal, MaxWriterGroups)
    /\ ConsoleRoom(journal)
    /\ Call("group_begin", NULL, -1, suselog_group_begin(journal, NULL))

Writer_group_finish ==
    /\ ConsoleRoom(journal)
    /\ Call("group_finish", NULL, -1, suselog_group_finish(journal))

Writer_test_begin ==
    /\ TestRoom(journal, MaxWriterGroups, MaxWriterTests)
    /\ ConsoleRoom(journal)
    /\ Call("test_begin", NULL, -1, suselog_test_begin(journal, NULL))

Writer_test_finish ==
    /\ LogCount(journal) < MaxWriterLog
    /\ ConsoleRoom(journal)
    /\ \E status \in suselog_status_t :
            Call("test_finish", NULL, status, suselog_test_finish(journal, status))

Writer_failure ==
    /\ LogCount(journal) < MaxWriterLog
    /\ ConsoleRoom(journal)
    /\ \E msg \in Messages :
            Call("failure", msg, SUSELOG_STATUS_FAILURE, suselog_failure(journal, msg))

Writer_info ==
    /\ LogCount(journal) < MaxWriterLog
    /\ ConsoleRoom(journal)
    /\ \E msg \in Messages :
            Call("info", msg, -1, suselog_info(journal, msg))

Writer_write ==
    /\ ConsoleRoom(journal)
    /\ \E ub \in UbOutcomes :
            LET W == suselog_journal_write(journal, ub)
            IN CallOut("write", NULL, -1, W.journal, NULL, W.out)

NextWriter ==
    \/ Writer_group_begin
    \/ Writer_group_finish
    \/ Writer_test_begin
    \/ Writer_test_finish
    \/ Writer_failure
    \/ Writer_info
    \/ Writer_write

SpecWriter == InitWriter /\ [][NextWriter]_vars

(***************************************************************************)
(* Journals whose writer has every hook: the console holds every hook call *)
(***************************************************************************)
HooksRoom(J) == Len(J.writer.console) < MaxHookCalls

InitHooks ==
    /\ \E name \in JournalNames :
            journal = suselog_journal_new(name, suselog_writer(Hooks))
    /\ last = [op |-> "journal_new", arg |-> NULL, status |-> -1,
               pre_group |-> 0, pre_status |-> -1, rv |-> NULL, out |-> <<>>]

Hooks_group_begin ==
    /\ GroupRoom(journal, MaxHookGroups)
    /\ HooksRoom(journal)
    /\ Call("group_begin", NULL, -1, suselog_group_begin(journal, NULL))

Hooks_group_finish ==
    /\ HooksRoom(journal)
    /\ Call("group_finish", NULL, -1, suselog_group_finish(journal))

Hooks_test_begin ==
    /\ TestRoom(journal, MaxHookGroups, MaxHookTests)
    /\ HooksRoom(journal)
    /\ Call("test_begin", NULL, -1, suselog_test_begin(journal, NULL))

Hooks_test_finish ==
    /\ LogCount(journal) < MaxHookLog
    /\ HooksRoom(journal)
    /\ \E status \in suselog_status_t :
            Call("test_finish", NULL, status, suselog_test_finish(journal, status))

Hooks_failure ==
    /\ LogCount(journal) < MaxHookLog
    /\ HooksRoom(journal)
    /\ \E msg \in Messages :
            Call("failure", msg, SUSELOG_STATUS_FAILURE, suselog_failure(journal, msg))

NextHooks ==
    \/ Hooks_group_begin
    \/ Hooks_group_finish
    \/ Hooks_test_begin
    \/ Hooks_test_finish
    \/ Hooks_failure

SpecHooks == InitHooks /\ [][NextHooks]_vars

(***************************************************************************)
(* Reports of journals with several groups and tests, with the output of   *)
(* the tests placed at either level                                        *)
(***************************************************************************)
Report_group_begin ==
    /\ GroupRoom(journal, MaxReportGroups)
    /\ Call("group_begin", NULL, -1, suselog_group_begin(journal, NULL))

Report_test_begin ==
    /\ TestRoom(journal, MaxReportGroups, MaxReportTests)
    /\ Call("test_begin", NULL, -1, suselog_test_begin(journal, NULL))

Report_logmsg ==
    /\ LogCount(journal) < MaxReportRecords
    /\ \E severity \in QuerySeverities, msg \in Messages :
            Call("logmsg", [severity |-> severity, message |-> msg], -1,
                 suselog_logmsg(journal, severity, msg))

Report_test_finish ==
    /\ LogCount(journal) < MaxReportRecords
    /\ \E status \in suselog_status_t :
            Call("test_finish", NULL, status, suselog_test_finish(journal, status))

Report_set_systemout_level ==
    \E level \in suselog_level_t :
        Call("set_systemout_level", ToString(level), -1,
             suselog_journal_set_systemout_level(journal, level))

Report_write ==
    \E ub \in UbOutcomes :
        LET W == suselog_journal_write(journal, ub)
        IN CallOut("write", NULL, -1, W.journal, NULL, W.out)

NextReport ==
    \/ Report_group_begin
    \/ Report_test_begin
    \/ Report_logmsg
    \/ Report_test_finish
    \/ Report_set_systemout_level
    \/ Report_write

SpecReport == Init /\ [][NextReport]_vars

(***************************************************************************)
(* Reports of tests whose records have every severity, with messages that  *)
(* end in a newline, that do not, and that are empty                       *)
(***************************************************************************)
TextMessages == { "m", "n\n", "" }

Text_test_begin ==
    /\ TestRoom(journal, MaxTextGroups, MaxTextTests)
    /\ Call("test_begin", NULL, -1, suselog_test_begin(journal, NULL))

Text_logmsg ==
    /\ LogCount(journal) < MaxTextRecords
    /\ \E severity \in suselog_severity_t, msg \in TextMessages :
            Call("logmsg", [severity |-> severity, message |-> msg], -1,
                 suselog_logmsg(journal, severity, msg))

Text_test_finish ==
    /\ LogCount(journal) < MaxTextRecords
    /\ \E status \in suselog_status_t :
            Call("test_finish", NULL, status, suselog_test_finish(journal, status))

Text_write ==
    \E ub \in UbOutcomes :
        LET W == suselog_journal_write(journal, ub)
        IN CallOut("write", NULL, -1, W.journal, NULL, W.out)

NextText ==
    \/ Text_test_begin
    \/ Text_logmsg
    \/ Text_test_finish
    \/ Text_write

SpecText == Init /\ [][NextText]_vars

(***************************************************************************)
(* The timestamp attribute of a testsuite, for the local times of the      *)
(* creation of a group                                                     *)
(***************************************************************************)
Timestamp_group_begin ==
    /\ GroupRoom(journal, MaxGroups)
    /\ Call("group_begin", NULL, -1, suselog_group_begin(journal, NULL))

\* the timestamp that __suselog_junit_group adds for a group created at tm
Timestamp_junit_timestamp ==
    /\ journal.groups # <<>>
    /\ \E tm \in LocalTimes :
            CallOut("junit_timestamp", tm, -1, journal,
                    __suselog_junit_timestamp(tm), <<>>)

NextTimestamp ==
    \/ Timestamp_group_begin
    \/ Timestamp_junit_timestamp

SpecTimestamp == Init /\ [][NextTimestamp]_vars

(***************************************************************************)
(* Reports of groups and tests whose names and messages hold double        *)
(* quotes, with the start tags of the written document                     *)
(***************************************************************************)
Attr_group_begin ==
    /\ GroupRoom(journal, MaxAttrGroups)
    /\ \E name \in QuoteNames :
            Call("group_begin", name, -1, suselog_group_begin(journal, name))

Attr_test_begin ==
    /\ TestRoom(journal, MaxAttrGroups, MaxAttrTests)
    /\ Call("test_begin", NULL, -1, suselog_test_begin(journal, NULL))

Attr_failure ==
    /\ LogCount(journal) < MaxAttrLog
    /\ \E msg \in QuoteMessages :
            Call("failure", msg, SUSELOG_STATUS_FAILURE, suselog_failure(journal, msg))

Attr_error ==
    /\ LogCount(journal) < MaxAttrLog
    /\ \E msg \in QuoteMessages :
            Call("error", msg, SUSELOG_STATUS_ERROR, suselog_error(journal, msg))

\* rv: the start tags of the document that was written
WriteDocument(W) ==
    CallOut("write", NULL, -1, W.journal,
            IF W.out = <<>> THEN <<>> ELSE xml_node_output(W.out[1]), W.out)

Attr_write ==
    \E ub \in UbOutcomes : WriteDocument(suselog_journal_write(journal, ub))

NextAttr ==
    \/ Attr_group_begin
    \/ Attr_test_begin
    \/ Attr_failure
    \/ Attr_error
    \/ Attr_write

SpecAttr == Init /\ [][NextAttr]_vars

(***************************************************************************)
(* Calls made with and without a current group: groups are begun and       *)
(* finished, tests are begun, finished and logged to, files are merged and *)
(* the report is written, in any order                                     *)
(***************************************************************************)
\* an unreadable file, a file without test suites and a file with one test
\* suite of three tests
ScopeFiles ==
    { [doc |-> FALSE, children |-> <<>>],
      [doc |-> TRUE, children |-> << XmlNode("testsuites", <<>>, NULL, <<>>) >>],
      [doc |-> TRUE, children |->
            << XmlNode("testsuites", <<>>, NULL,
                       << XmlNode("testsuite",
                                  << <<"name", "b">>, <<"tests", "3">>,
                                     <<"failures", "1">>, <<"errors", "1">> >>,
                                  NULL, <<>>) >>) >>] }

ScopeRoom(J) == LogCount(J) < MaxScopeLog

Scope_group_begin ==
    \E name \in GroupNames :
        /\ GroupRoom(journal, MaxScopeGroups)
        /\ Call("group_begin", name, -1, suselog_group_begin(journal, name))

Scope_group_finish ==
    Call("group_finish", NULL, -1, suselog_group_finish(journal))

Scope_finish ==
    Call("finish", NULL, -1, suselog_finish(journal))

Scope_test_begin ==
    /\ TestRoom(journal, MaxScopeGroups, MaxScopeTests)
    /\ Call("test_begin", NULL, -1, suselog_test_begin(journal, NULL))

Scope_test_finish ==
    \E status \in suselog_status_t :
        /\ ScopeRoom(journal)
        /\ Call("test_finish", NULL, status, suselog_test_finish(journal, status))

Scope_logmsg ==
    \E severity \in { "INFO", "FAILURE" } :
        /\ ScopeRoom(journal)
        /\ Call("logmsg", [severity |-> severity, message |-> "m"], -1,
                suselog_logmsg(journal, severity, "m"))

Scope_record_stdout ==
    \E ub \in UbOutcomes :
        /\ ScopeRoom(journal)
        /\ Call("record_stdout", <<65>>, -1,
                suselog_record_stdout(journal, <<65>>, "C", ub))

Scope_merge ==
    \E file \in ScopeFiles :
        /\ MergedCount(journal) < MaxScopeMerged
        /\ journal.cur_group = 0 => GroupRoom(journal, MaxScopeGroups)
        /\ LET R == suselog_journal_merge(journal, file)
           IN CallOut("merge", file, -1, R.journal, R.rv, <<>>)

Scope_write ==
    \E ub \in UbOutcomes :
        LET W == suselog_journal_write(journal, ub)
        IN CallOut("write", NULL, -1, W.journal, NULL, W.out)

NextScope ==
    \/ Scope_group_begin
    \/ Scope_group_finish
    \/ Scope_finish
    \/ Scope_test_begin
    \/ Scope_test_finish
    \/ Scope_logmsg
    \/ Scope_record_stdout
    \/ Scope_merge
    \/ Scope_write

SpecScope == Init /\ [][NextScope]_vars

(***************************************************************************)
(* The earlier copy of the library, src/junit/library/suselog.c.  Its       *)
(* statistics, logging and group_finish code is the code above; group      *)
(* names carry no journal prefix, unnamed tests are named by the group's   *)
(* autoname, and suselog_test_finish differs.                              *)
(***************************************************************************)
\* What "%s" prints for an integer argument is undefined
UndefinedText == "conflicting test stati - <undefined> vs <undefined>"

\* ub: the outcome of the undefined behaviour of the conflict warning, which
\* formats the two status integers with %s
junit_suselog_test_finish(J, status, ub) ==
    IF J.cur_test = NoTest THEN J
    ELSE LET ct == J.cur_test
             test == CurTest(J)
         IN IF test.status # SUSELOG_STATUS_RUNNING /\ test.status # status
            THEN IF ub = "crash"
                 THEN [J EXCEPT !.fault = TRUE]
                 ELSE suselog_warning(J, UndefinedText)
            ELSE LET group == suselog_current_group(J)
                     J1 == [J EXCEPT !.groups[ct.g].tests[ct.t].status = status]
                 IN IF group = 0
                    THEN [J1 EXCEPT !.fault = TRUE]
                    ELSE [J1 EXCEPT !.groups[group].stats =
                                        suselog_stats_update(@, status)]

junit_suselog_success(J, ub) ==
    junit_suselog_test_finish(J, SUSELOG_STATUS_SUCCESS, ub)

junit_suselog_failure(J, msg, ub) ==
    junit_suselog_test_finish(__suselog_vlogmsg(J, "FAILURE", msg),
                              SUSELOG_STATUS_FAILURE, ub)

junit_suselog_error(J, msg, ub) ==
    junit_suselog_test_finish(__suselog_vlogmsg(J, "ERROR", msg),
                              SUSELOG_STATUS_ERROR, ub)

junit_suselog_group_finish(J, ub) ==
    LET J1 == IF __suselog_test_running(J)
              THEN junit_suselog_test_finish(J, SUSELOG_STATUS_SUCCESS, ub)
              ELSE J
        group == J1.cur_group
        J2 == IF group # 0
              THEN [J1 EXCEPT !.stats = suselog_stats_aggregate(@, J1.groups[group].stats)]
              ELSE J1
    IN [J2 EXCEPT !.cur_group = 0]

junit_suselog_group_begin(J, name, ub) ==
    LET J1 == junit_suselog_group_finish(J, ub)
        auto == (name = NULL)
        nm == IF auto THEN suselog_autoname_next("group", J1.autoname) ELSE name
        group == [suselog_group_new(nm) EXCEPT !.id = J1.num_groups]
    IN [J1 EXCEPT !.autoname = IF auto THEN @ + 1 ELSE @,
                  !.num_groups = @ + 1,
                  !.groups = Append(@, group),
                  !.cur_group = Len(J1.groups) + 1,
                  !.cur_test = NoTest]

junit_suselog_test_begin(J, name, ub) ==
    LET J1 == IF J.cur_group = 0 THEN junit_suselog_group_begin(J, NULL, ub) ELSE J
        group == J1.cur_group
        auto == (name = NULL)
        nm == IF auto
              THEN suselog_autoname_next("test", J1.groups[group].autoname)
              ELSE name
        test == suselog_test_new(nm)
    IN [J1 EXCEPT !.groups[group].autoname = IF auto THEN @ + 1 ELSE @,
                  !.groups[group].tests = Append(@, test),
                  !.cur_test = [g |-> group, t |-> Len(J1.groups[group].tests) + 1],
                  !.groups[group].stats.num_tests = @ + 1]

OutcomeCount(stats) == stats.num_succeeded + stats.num_failed + stats.num_errors

\* room for one more counted outcome in the current group
CountRoom(J) ==
    IF J.cur_group = 0 THEN TRUE
    ELSE OutcomeCount(J.groups[J.cur_group].stats) < MaxCount

Junit_group_begin ==
    \E ub \in UbOutcomes :
        /\ GroupRoom(journal, MaxGroups)
        /\ Call("group_begin", NULL, -1, junit_suselog_group_begin(journal, NULL, ub))

Junit_group_finish ==
    \E ub \in UbOutcomes :
        Call("group_finish", NULL, -1, junit_suselog_group_finish(journal, ub))

Junit_test_begin ==
    \E ub \in UbOutcomes :
        /\ TestRoom(journal, MaxGroups, MaxTests)
        /\ Call("test_begin", NULL, -1, junit_suselog_test_begin(journal, NULL, ub))

Junit_test_finish ==
    \E status \in suselog_status_t, ub \in UbOutcomes :
        /\ LogRoom(journal)
        /\ CountRoom(journal)
        /\ Call("test_finish", NULL, status,
                junit_suselog_test_finish(journal, status, ub))

Junit_success ==
    \E ub \in UbOutcomes :
        /\ LogRoom(journal)
        /\ CountRoom(journal)
        /\ Call("success", NULL, SUSELOG_STATUS_SUCCESS, junit_suselog_success(journal, ub))

Junit_failure ==
    \E msg \in Messages, ub \in UbOutcomes :
        /\ LogRoom(journal)
        /\ CountRoom(journal)
        /\ Call("failure", msg, SUSELOG_STATUS_FAILURE, junit_suselog_failure(journal, msg, ub))

Junit_error ==
    \E msg \in Messages, ub \in UbOutcomes :
        /\ LogRoom(journal)
        /\ CountRoom(journal)
        /\ Call("error", msg, SUSELOG_STATUS_ERROR, junit_suselog_error(journal, msg, ub))

Junit_info ==
    \E msg \in Messages :
        /\ LogRoom(journal)
        /\ Call("info", msg, -1, suselog_info(journal, msg))

Junit_warning ==
    \E msg \in Messages :
        /\ LogRoom(journal)
        /\ Call("warning", msg, -1, suselog_warning(journal, msg))

NextJunit ==
    \/ Junit_group_begin
    \/ Junit_group_finish
    \/ Junit_test_begin
    \/ Junit_test_finish
    \/ Junit_success
    \/ Junit_failure
    \/ Junit_error
    \/ Junit_info
    \/ Junit_warning

SpecJunit == Init /\ [][NextJunit]_vars

(***************************************************************************)
(* Properties                                                              *)
(***************************************************************************)
Terminal(status) == status # SUSELOG_STATUS_RUNNING

RECURSIVE CountSeverity(_, _, _)
CountSeverity(infos, severity, i) ==
    IF i > Len(infos) THEN 0
    ELSE (IF infos[i].severity = severity THEN 1 ELSE 0)
            + CountSeverity(infos, severity, i + 1)

WarningCount(test) == CountSeverity(test.extra_info, "WARNING", 1)

\* the step is a call asking to finish the current test with status last'.status
FinishCall == last'.status # -1 /\ journal.cur_test # NoTest

GroupIds(J) == 1..Len(J.groups)
TestIds(J, g) == 1..Len(J.groups[g].tests)

\* C1: finishing a test that is already terminal with a different status, by
\* suselog_test_finish or through suselog_success / suselog_failure /
\* suselog_error, leaves the stored status unchanged and logs exactly one
\* warning on the test.
C1_Step ==
    (/\ FinishCall
     /\ Terminal(CurTest(journal).status)
     /\ last'.status # CurTest(journal).status)
    => /\ journal'.cur_test = journal.cur_test
       /\ CurTest(journal').status = CurTest(journal).status
       /\ WarningCount(CurTest(journal')) = WarningCount(CurTest(journal)) + 1

C1_ConflictKeepsStatus == [][C1_Step]_vars

\* suselog_failure on a test that succeeded: the status stays SUCCESS and the
\* log holds the failure message and the one conflict warning
C1_Witness ==
    /\ last.op = "failure"
    /\ last.pre_status = SUSELOG_STATUS_SUCCESS
    /\ journal.cur_test # NoTest
    /\ CurTest(journal).status = SUSELOG_STATUS_SUCCESS
    /\ CurTest(journal).extra_info =
            << suselog_info_new("FAILURE", "m"),
               suselog_info_new("WARNING", "conflicting test stati - 1 vs 2") >>

\* C2: finishing the current test again with the terminal status it already
\* has changes no counter of any group's statistics.
C2_Step ==
    (/\ FinishCall
     /\ Terminal(CurTest(journal).status)
     /\ last'.status = CurTest(journal).status)
    => \A g \in GroupIds(journal) : journal'.groups[g].stats = journal.groups[g].stats

C2_RefinishKeepsStats == [][C2_Step]_vars

\* number of tests of group g that leave RUNNING for a status in to, in this step
Leaving(g, to) ==
    Cardinality({ t \in TestIds(journal, g) :
                    /\ journal.groups[g].tests[t].status = SUSELOG_STATUS_RUNNING
                    /\ journal'.groups[g].tests[t].status \in to })

Counted(stats) == stats.num_succeeded + stats.num_failed + stats.num_errors

\* C3 as claimed (for whichever status): in every step the outcome counters of a group grow by one for
\* each of its tests that leaves RUNNING, for whichever status, and by nothing else.
C3_StepAnyStatus ==
    \A g \in GroupIds(journal) :
        Counted(journal'.groups[g].stats) - Counted(journal.groups[g].stats)
            = Leaving(g, suselog_status_t \ {SUSELOG_STATUS_RUNNING})

C3_CountedOnLeavingRunning == [][C3_StepAnyStatus]_vars

\* C3 amended: in every step each outcome counter of a group grows by the number
\* of its tests that leave RUNNING for that counter's status (SUCCESS, FAILURE,
\* ERROR) and by nothing else; a test that leaves RUNNING for SKIPPED is counted
\* by no outcome counter; a test that is terminal is never counted again.
C3_StepCountedStatus ==
    \A g \in GroupIds(journal) :
        LET old == journal.groups[g].stats
            new == journal'.groups[g].stats
        IN /\ new.num_succeeded - old.num_succeeded = Leaving(g, {SUSELOG_STATUS_SUCCESS})
           /\ new.num_failed - old.num_failed = Leaving(g, {SUSELOG_STATUS_FAILURE})
           /\ new.num_errors - old.num_errors = Leaving(g, {SUSELOG_STATUS_ERROR})
           /\ new.num_skipped = old.num_skipped

C3_CountedOncePerOutcome == [][C3_StepCountedStatus]_vars

\* a test finished as SKIPPED, which no outcome counter counts
C3_Witness ==
    /\ last.op = "test_finish"
    /\ last.status = SUSELOG_STATUS_SKIPPED
    /\ last.pre_status = SUSELOG_STATUS_RUNNING
    /\ journal.cur_test # NoTest
    /\ CurTest(journal).status = SUSELOG_STATUS_SKIPPED
    /\ Len(journal.groups[journal.cur_test.g].tests) = 2
    /\ journal.groups[journal.cur_test.g].tests[1].status = SUSELOG_STATUS_FAILURE
    /\ Counted(journal.groups[journal.cur_test.g].stats) = 1

NumTestsOf(group) == group.stats.num_tests
NumSucceededOf(group) == group.stats.num_succeeded
NumFailedOf(group) == group.stats.num_failed
NumErrorsOf(group) == group.stats.num_errors
NumWarningsOf(group) == group.stats.num_warnings
NumDisabledOf(group) == group.stats.num_disabled
NumSkippedOf(group) == group.stats.num_skipped

\* element-wise sum of the statistics of a sequence of groups
StatsSum(groups) ==
    [ num_tests |-> SumSeq(NumTestsOf, groups, 1),
      num_succeeded |-> SumSeq(NumSucceededOf, groups, 1),
      num_failed |-> SumSeq(NumFailedOf, groups, 1),
      num_errors |-> SumSeq(NumErrorsOf, groups, 1),
      num_warnings |-> SumSeq(NumWarningsOf, groups, 1),
      num_disabled |-> SumSeq(NumDisabledOf, groups, 1),
      num_skipped |-> SumSeq(NumSkippedOf, groups, 1) ]

\* C4: after suselog_finish the statistics of the journal are the element-wise
\* sum, over all seven counters, of the statistics of all its groups.
C4_FinishSumsGroups ==
    last.op = "finish" => journal.stats = StatsSum(journal.groups)

\* two finished groups, one test failed and one succeeded
C4_Witness ==
    /\ last.op = "finish"
    /\ Len(journal.groups) = 2
    /\ journal.stats.num_tests = 2
    /\ journal.stats.num_failed = 1
    /\ journal.stats.num_succeeded = 1
    /\ journal.groups[1].stats.num_tests = 1
    /\ journal.groups[2].stats.num_tests = 1

\* number of tests of the journal that are RUNNING
RunningIn(group) ==
    Cardinality({ t \in 1..Len(group.tests) :
                    group.tests[t].status = SUSELOG_STATUS_RUNNING })
RunningCount(J) == SumSeq(RunningIn, J.groups, 1)

StatsPlus(a, b) ==
    [ num_tests |-> a.num_tests + b.num_tests,
      num_succeeded |-> a.num_succeeded + b.num_succeeded,
      num_failed |-> a.num_failed + b.num_failed,
      num_errors |-> a.num_errors + b.num_errors,
      num_warnings |-> a.num_warnings + b.num_warnings,
      num_disabled |-> a.num_disabled + b.num_disabled,
      num_skipped |-> a.num_skipped + b.num_skipped ]

\* the test that was current before the step was RUNNING; after the step it is
\* SUCCESS and its group has counted one more success
RunningTestSucceeded ==
    LET ct == journal.cur_test
    IN (ct # NoTest /\ CurTest(journal).status = SUSELOG_STATUS_RUNNING)
       => /\ journal'.groups[ct.g].tests[ct.t].status = SUSELOG_STATUS_SUCCESS
          /\ journal'.groups[ct.g].stats.num_succeeded
                = journal.groups[ct.g].stats.num_succeeded + 1

\* C5: suselog_test_begin first finishes a RUNNING current test as SUCCESS,
\* counting it once as succeeded; suselog_group_begin first finishes the current
\* group (its statistics are added to the journal's) and with it the RUNNING
\* test as SUCCESS; after every step at most one test of the journal is RUNNING.
C5_Step ==
    /\ last'.op = "test_begin" => RunningTestSucceeded
    /\ (last'.op = "group_begin" /\ journal.cur_group # 0)
        => /\ RunningTestSucceeded
           /\ journal'.stats =
                StatsPlus(journal.stats, journal'.groups[journal.cur_group].stats)
    /\ RunningCount(journal') <= 1

C5_BeginFinishesRunning == [][C5_Step]_vars

\* a second test was begun while the first was RUNNING: the first is SUCCESS
C5_Witness ==
    /\ last.op = "test_begin"
    /\ last.pre_status = SUSELOG_STATUS_RUNNING
    /\ journal.cur_test = [g |-> 1, t |-> 2]
    /\ journal.groups[1].tests[1].status = SUSELOG_STATUS_SUCCESS
    /\ journal.groups[1].tests[2].status = SUSELOG_STATUS_RUNNING
    /\ journal.groups[1].stats.num_succeeded = 1

\* C6: suselog_group_finish and suselog_finish called when no group is current
\* (the current group was finished before) change nothing of the journal: no
\* group, test, status or counter, and nothing is aggregated again.
C6_Step ==
    (last'.op \in {"group_finish", "finish"} /\ journal.cur_group = 0)
    => journal' = journal

C6_FinishIdempotent == [][C6_Step]_vars

\* suselog_finish called after the only group, with its test, was finished
C6_Witness ==
    /\ last.op = "finish"
    /\ last.pre_group = 0
    /\ Len(journal.groups) = 1
    /\ journal.stats.num_tests = 1
    /\ journal.stats.num_failed = 1

\* C7: the name of a newly begun test is the owning group's name when the name
\* argument is omitted or the journal's max name level forbids per-test names
\* (the default), and group name "." tag otherwise.
C7_TestName ==
    last.op = "test_begin"
    => LET group == journal.groups[journal.cur_test.g]
       IN /\ journal.cur_test # NoTest
          /\ journal.cur_test.g = journal.cur_group
          /\ CurTest(journal).name =
                IF last.arg = NULL \/ journal.max_name_level < SUSELOG_LEVEL_TEST
                THEN group.name
                ELSE group.name \o "." \o last.arg

\* in journal "mytest" the first unnamed group's first unnamed test is
\* "mytest.group0"
C7_Witness ==
    /\ last.op = "test_begin"
    /\ last.arg = NULL
    /\ journal.name = "mytest"
    /\ journal.max_name_level = SUSELOG_LEVEL_GROUP
    /\ journal.cur_test = [g |-> 1, t |-> 1]
    /\ journal.groups[1].name = "mytest.group0"
    /\ CurTest(journal).name = "mytest.group0"

\* the step begins an unnamed test in the group in which the call before it
\* began an unnamed test
TwoUnnamedTests ==
    /\ last.op = "test_begin" /\ last.arg = NULL
    /\ last'.op = "test_begin" /\ last'.arg = NULL
    /\ journal.cur_group # 0

\* C8: two unnamed tests begun one after the other in one group get distinct
\* auto-generated names.
C8_StepDistinct ==
    TwoUnnamedTests => CurTest(journal').name # CurTest(journal).name

C8_UnnamedTestsDistinct == [][C8_StepDistinct]_vars

\* the groups of the journal that carry the k-th automatic name
AutoNamed(J, k) ==
    { g \in GroupIds(J) : J.groups[g].name = J.name \o "." \o "group" \o ToString(k) }

ExplicitGroupNames == { J \o "." \o n : J \in JournalNames, n \in GroupNames \ {NULL} }

\* C9: the unnamed groups of a journal are named group0, group1, ... in the
\* order of their creation: each automatic name handed out so far is carried by
\* exactly one group, a later automatic name by a later group, every group not
\* named by the caller carries one, and the autoname counter is their number,
\* also when named groups are begun in between.
C9_GroupAutonames ==
    /\ \A k \in 0..(journal.autoname - 1) : Cardinality(AutoNamed(journal, k)) = 1
    /\ \A k \in 1..(journal.autoname - 1) :
            \A g \in AutoNamed(journal, k - 1), h \in AutoNamed(journal, k) : g < h
    /\ Cardinality({ g \in GroupIds(journal) :
                        journal.groups[g].name \notin ExplicitGroupNames })
            = journal.autoname

\* an unnamed, a named and an unnamed group: group0, foobar, group1
C9_Witness ==
    /\ Len(journal.groups) = 3
    /\ journal.groups[1].name = "mytest.group0"
    /\ journal.groups[2].name = "mytest.foobar"
    /\ journal.groups[3].name = "mytest.group1"
    /\ journal.autoname = 2

\* C10: suselog_group_begin finishes the current group (no test is left RUNNING
\* and the statistics of all earlier groups are in the journal's), appends a
\* group named journal name "." name (the name being the next autoname when
\* omitted) without tests, makes it the current group and resets the current
\* test to none.
C10_GroupBegin ==
    last.op = "group_begin"
    => LET n == Len(journal.groups)
       IN /\ n > 0
          /\ journal.cur_group = n
          /\ journal.cur_test = NoTest
          /\ journal.groups[n].name = journal.name \o "." \o
                (IF last.arg = NULL
                 THEN "group" \o ToString(journal.autoname - 1)
                 ELSE last.arg)
          /\ journal.groups[n].tests = <<>>
          /\ journal.groups[n].stats = suselog_stats_zero
          /\ journal.groups[n].id = n - 1
          /\ journal.num_groups = n
          /\ RunningCount(journal) = 0
          /\ journal.stats = StatsSum(SubSeq(journal.groups, 1, n - 1))

\* a named group begun while a test of the first group was RUNNING
C10_Witness ==
    /\ last.op = "group_begin"
    /\ last.arg = "foobar"
    /\ last.pre_group = 1
    /\ last.pre_status = SUSELOG_STATUS_RUNNING
    /\ Len(journal.groups) = 2
    /\ journal.groups[2].name = "mytest.foobar"
    /\ journal.groups[1].tests[1].status = SUSELOG_STATUS_SUCCESS
    /\ journal.stats.num_succeeded = 1
    /\ journal.cur_group = 2
    /\ journal.cur_test = NoTest

\* C11 as claimed: the name accessors return an explicitly supplied group or
\* test name verbatim.
C11_ExplicitNamesVerbatim ==
    /\ (last.op = "group_begin" /\ last.arg # NULL)
        => suselog_group_name(journal.groups[journal.cur_group]) = last.arg
    /\ (last.op = "test_begin" /\ last.arg # NULL)
        => suselog_test_name(CurTest(journal)) = last.arg

\* C11 amended: the accessors return the supplied name qualified: for a group
\* the journal's name "." name; for a test the name of its group "." name when
\* the max name level allows test names, and the name of its group otherwise.
C11_ExplicitNamesQualified ==
    /\ (last.op = "group_begin" /\ last.arg # NULL)
        => suselog_group_name(journal.groups[journal.cur_group])
                = journal.name \o "." \o last.arg
    /\ (last.op = "test_begin" /\ last.arg # NULL)
        => suselog_test_name(CurTest(journal)) =
                IF journal.max_name_level = SUSELOG_LEVEL_TEST
                THEN suselog_group_name(journal.groups[journal.cur_test.g])
                        \o "." \o last.arg
                ELSE suselog_group_name(journal.groups[journal.cur_test.g])

\* test "tag" begun in group "foobar" of journal "mytest" with test names allowed
C11_Witness ==
    /\ last.op = "test_begin"
    /\ last.arg = "tag"
    /\ journal.max_name_level = SUSELOG_LEVEL_TEST
    /\ suselog_group_name(journal.groups[journal.cur_group]) = "mytest.foobar"
    /\ suselog_test_name(CurTest(journal)) = "mytest.foobar.tag"

\* the step is one of the finishing calls (suselog_fatal aside), rejected
\* because the current test is terminal with another status
RejectedFinish ==
    /\ FinishCall
    /\ last'.op # "fatal"
    /\ Terminal(CurTest(journal).status)
    /\ last'.status # CurTest(journal).status

\* the record that the call of the step logs itself before it finishes the test
OwnRecord ==
    CASE last'.op \in {"failure"} -> << suselog_info_new("FAILURE", last'.arg) >>
      [] last'.op \in {"error"} -> << suselog_info_new("ERROR", last'.arg) >>
      [] OTHER -> <<>>

\* C12 as claimed: a rejected finish leaves the test untouched: its status, its
\* message log (number and content of the records) and the statistics of its
\* group are the same after the call as before.
C12_StepUntouched ==
    (RejectedFinish /\ last'.op = "test_finish")
    => /\ CurTest(journal') = CurTest(journal)
       /\ journal'.groups[journal.cur_test.g].stats
            = journal.groups[journal.cur_test.g].stats

C12_RejectedFinishLeavesTest == [][C12_StepUntouched]_vars

\* C12 amended: a rejected finish leaves the status of the test and the
\* statistics of every group and of the journal as they were and keeps the
\* earlier records of the test in place; it appends the conflict warning as one
\* WARNING record to the log of the test (after the record that
\* suselog_failure and suselog_error log themselves).
C12_StepWarningOnly ==
    RejectedFinish
    => LET ct == journal.cur_test
           old == CurTest(journal)
           new == journal'.groups[ct.g].tests[ct.t]
       IN /\ journal'.cur_test = ct
          /\ new.status = old.status
          /\ new.name = old.name
          /\ new.extra_info = old.extra_info \o OwnRecord \o
                << suselog_info_new("WARNING", ConflictMsg(old.status, last'.status)) >>
          /\ journal'.stats = journal.stats
          /\ \A g \in GroupIds(journal) : journal'.groups[g].stats = journal.groups[g].stats

C12_RejectedFinishAppendsWarning == [][C12_StepWarningOnly]_vars

\* suselog_test_finish(ERROR) rejected on a failed test that holds a record
C12_Witness ==
    /\ last.op = "test_finish"
    /\ last.status = SUSELOG_STATUS_ERROR
    /\ last.pre_status = SUSELOG_STATUS_FAILURE
    /\ journal.cur_test # NoTest
    /\ CurTest(journal).status = SUSELOG_STATUS_FAILURE
    /\ CurTest(journal).extra_info =
            << suselog_info_new("FAILURE", "m"),
               suselog_info_new("WARNING", "conflicting test stati - 2 vs 3") >>
    /\ journal.groups[journal.cur_test.g].stats.num_failed = 1
    /\ journal.groups[journal.cur_test.g].stats.num_errors = 0

\* the record that a logging call of the step asks to store
LoggedRecord ==
    CASE last'.op = "info" -> suselog_info_new("INFO", last'.arg)
      [] last'.op = "warning" -> suselog_info_new("WARNING", last'.arg)
      [] last'.op = "logmsg" -> suselog_info_new(last'.arg.severity, last'.arg.message)

\* C13: suselog_info, suselog_warning and suselog_logmsg with a current test
\* append exactly one record, with the severity and message given, at the end of
\* the log of that test; the earlier records stay in place and in order; the
\* status of the test (a RUNNING test stays RUNNING), the current group and test,
\* the statistics of the journal and of every group, and every other test are
\* unchanged.
C13_Step ==
    (last'.op \in {"info", "warning", "logmsg"} /\ journal.cur_test # NoTest)
    => LET ct == journal.cur_test
           old == CurTest(journal)
           new == journal'.groups[ct.g].tests[ct.t]
       IN /\ new.extra_info = old.extra_info \o << LoggedRecord >>
          /\ new.status = old.status
          /\ new.name = old.name
          /\ journal'.cur_test = ct
          /\ journal'.cur_group = journal.cur_group
          /\ journal'.stats = journal.stats
          /\ Len(journal'.groups) = Len(journal.groups)
          /\ \A g \in GroupIds(journal) :
                /\ journal'.groups[g].stats = journal.groups[g].stats
                /\ Len(journal'.groups[g].tests) = Len(journal.groups[g].tests)
                /\ \A t \in TestIds(journal, g) :
                        (g # ct.g \/ t # ct.t) =>
                            journal'.groups[g].tests[t] = journal.groups[g].tests[t]

C13_LogAppendsOneRecord == [][C13_Step]_vars

\* a second warning "m" logged on a RUNNING test that holds the same warning
C13_Witness ==
    /\ last.op = "warning"
    /\ last.pre_status = SUSELOG_STATUS_RUNNING
    /\ journal.cur_test # NoTest
    /\ CurTest(journal).status = SUSELOG_STATUS_RUNNING
    /\ CurTest(journal).extra_info =
            << suselog_info_new("WARNING", "m"),
               suselog_info_new("WARNING", "m") >>

\* the positions of the records of the severity in a log
RecordsOf(infos, severity) ==
    { i \in 1..Len(infos) : infos[i].severity = severity }

\* the message of the earliest record of the severity, or NULL when there is none
FirstMessage(infos, severity) ==
    IF RecordsOf(infos, severity) = {} THEN NULL
    ELSE infos[CHOOSE i \in RecordsOf(infos, severity) :
                    \A k \in RecordsOf(infos, severity) : i <= k].message

\* the value of the attribute of the node, or NULL when the node has none
AttrValue(node, key) ==
    IF \E i \in 1..Len(node.attrs) : node.attrs[i][1] = key
    THEN node.attrs[CHOOSE i \in 1..Len(node.attrs) : node.attrs[i][1] = key][2]
    ELSE NULL

\* every element named name under the testcase bears the first message of the
\* severity in the log of the test as its message attribute
MessageAttrIsFirst(testcase, test, name, severity) ==
    \A c \in 1..Len(testcase.children) :
        testcase.children[c].name = name
        => AttrValue(testcase.children[c], "message")
                = FirstMessage(test.extra_info, severity)

\* C14: suselog_test_get_message returns the message of the earliest record of
\* the severity in the log of the test, whatever records of other severities
\* come before it, and NULL when the test holds no record of the severity; in a
\* written report the message attribute of a failure (error) element is the
\* first FAILURE (ERROR) message of its test.
C14_FirstMessage ==
    /\ last.op = "get_message"
        => last.rv = FirstMessage(journal.groups[last.arg.g].tests[last.arg.t].extra_info,
                                  last.arg.severity)
    /\ (last.op = "write" /\ last.out # <<>>)
        => \A g \in GroupIds(journal) : \A t \in TestIds(journal, g) :
                LET testcase == last.out[1].children[g].children[t]
                    test == journal.groups[g].tests[t]
                IN /\ MessageAttrIsFirst(testcase, test, "failure", "FAILURE")
                   /\ MessageAttrIsFirst(testcase, test, "error", "ERROR")

\* the test holds an info and two failure messages; the first failure message
\* is returned
C14_Witness ==
    /\ last.op = "get_message"
    /\ last.arg.severity = "FAILURE"
    /\ last.rv = "n"
    /\ journal.groups[last.arg.g].tests[last.arg.t].extra_info =
            << suselog_info_new("INFO", "m"),
               suselog_info_new("FAILURE", "n"),
               suselog_info_new("FAILURE", "m") >>

\* the number of elements that a group puts under the root: its merged
\* elements when it holds merged content, one testsuite of its own otherwise
Placed(group) == IF group.merged.node THEN Len(group.merged.children) ELSE 1

\* the number of elements that the groups before the g-th put under the root
PlacedBefore(J, g) == SumSeq(Placed, SubSeq(J.groups, 1, g - 1), 1)

\* C15: a written report holds, at the position of every group that has
\* accepted merged content, the merged testsuite elements of the group,
\* unchanged and in their order, directly under the root, and no testsuite
\* element of the group itself, however many tests the group holds; every other
\* group is there with one testsuite element of its own; the root holds nothing
\* else.
C15_Step ==
    (last'.op = "write" /\ last'.out # <<>>)
    => LET kids == last'.out[1].children
       IN /\ Len(kids) = PlacedBefore(journal, Len(journal.groups) + 1)
          /\ \A g \in GroupIds(journal) :
                LET group == journal.groups[g]
                    first == PlacedBefore(journal, g) + 1
                IN IF group.merged.node
                   THEN SubSeq(kids, first, first + Len(group.merged.children) - 1)
                            = group.merged.children
                   ELSE /\ kids[first].name = "testsuite"
                        /\ AttrValue(kids[first], "package") = group.name
                        /\ AttrValue(kids[first], "id") = ToString(group.id)
          /\ \A g \in GroupIds(journal) : \A k \in 1..Len(kids) :
                journal.groups[g].merged.node
                    => AttrValue(kids[k], "package") # journal.groups[g].name

C15_MergedReplacesGroup == [][C15_Step]_vars

\* the report of a journal whose first group holds a test and two merged
\* testsuite elements and whose second group holds none: the two elements, then
\* the testsuite of the second group
C15_Witness ==
    /\ last.op = "write"
    /\ Len(last.out) = 1
    /\ Len(journal.groups) = 2
    /\ Len(journal.groups[1].tests) = 1
    /\ journal.groups[1].merged.node
    /\ ~journal.groups[2].merged.node
    /\ Len(last.out[1].children) = 3
    /\ AttrValue(last.out[1].children[1], "name") = "a"
    /\ AttrValue(last.out[1].children[2], "name") = "b"
    /\ AttrValue(last.out[1].children[3], "package") = "mytest.group1"

\* the top-level elements of the file are all "testsuites" collections
WellFormed(file) ==
    /\ file.doc
    /\ \A c \in 1..Len(file.children) : file.children[c].name = "testsuites"

\* C16: suselog_journal_merge returns 0 whenever the file is read and the
\* children of its root are testsuites collections.
C16_MergeReturnsSuccess ==
    (last.op = "merge" /\ WellFormed(last.arg)) => last.rv = 0

\* C17: a merge that fails because the file cannot be read leaves the journal
\* as it was, with or without a current group: the groups, the current group
\* and test, the autoname counter and the statistics are unchanged.
C17_Step ==
    (last'.op = "merge" /\ ~last'.arg.doc)
    => /\ journal'.groups = journal.groups
       /\ journal'.cur_group = journal.cur_group
       /\ journal'.cur_test = journal.cur_test
       /\ journal'.autoname = journal.autoname
       /\ journal'.stats = journal.stats

C17_FailedMergeLeavesJournal == [][C17_Step]_vars

IsTestsuite(node) == node.name = "testsuite"

\* the "testsuite" children of the collections, in document order
RECURSIVE TestsuitesOf(_)
TestsuitesOf(collections) ==
    IF collections = <<>> THEN <<>>
    ELSE SelectSeq(Head(collections).children, IsTestsuite)
            \o TestsuitesOf(Tail(collections))

\* the group that a merge of the step merges into: the current group, or the
\* group that the call creates when none is current
MergeGroup == IF journal.cur_group # 0 THEN journal.cur_group ELSE Len(journal.groups) + 1

MergedBefore ==
    IF journal.cur_group # 0 THEN journal.groups[journal.cur_group].merged.children
    ELSE <<>>

\* C18: a merge of a file whose top-level elements are testsuites collections
\* moves every "testsuite" child of every collection, in document order, to the
\* end of the merged content of the current group, and no child of another
\* name: such a child is skipped and the testsuite children before and after
\* it are still moved.
C18_Step ==
    (last'.op = "merge" /\ WellFormed(last'.arg))
    => /\ journal'.cur_group = MergeGroup
       /\ journal'.groups[MergeGroup].merged.children
            = MergedBefore \o TestsuitesOf(last'.arg.children)
       /\ \A k \in 1..Len(journal'.groups[MergeGroup].merged.children) :
            IsTestsuite(journal'.groups[MergeGroup].merged.children[k])

C18_SkipsUnexpectedChild == [][C18_Step]_vars

\* a collection of a testsuite, a properties element and a testsuite was
\* merged: the group holds the two testsuite elements
C18_Witness ==
    /\ last.op = "merge"
    /\ last.arg.doc
    /\ Len(last.arg.children) = 1
    /\ Len(last.arg.children[1].children) = 3
    /\ last.arg.children[1].children[2].name = "properties"
    /\ journal.cur_group # 0
    /\ journal.groups[journal.cur_group].merged.children =
            << last.arg.children[1].children[1], last.arg.children[1].children[3] >>
    /\ AttrValue(last.arg.children[1].children[1], "name") = "a"
    /\ AttrValue(last.arg.children[1].children[3], "name") = "b"

\* the status attribute of the testcase of a test with the status, or NULL
StatusAttr(status) ==
    CASE status = SUSELOG_STATUS_SUCCESS -> "success"
      [] status = SUSELOG_STATUS_FAILURE -> "failure"
      [] status = SUSELOG_STATUS_ERROR -> "error"
      [] OTHER -> NULL

\* the two records that suselog_fatal logs
FatalRecords ==
    << suselog_info_new("ERROR", "FATAL ERROR"), suselog_info_new("ERROR", last'.arg) >>

\* the step is suselog_fatal with a current test
FatalCall == last'.op = "fatal" /\ journal.cur_test # NoTest

\* the one report of the step shows the current test with the status
ReportShows(status) ==
    last'.out # <<>> =>
        AttrValue(last'.out[1].children[journal.cur_test.g].children[journal.cur_test.t],
                  "status") = StatusAttr(status)

\* C19 as claimed: suselog_fatal logs its message as ERROR on the current test,
\* leaves the test with status ERROR, also in the written report, whatever the
\* status of the test was, writes the report exactly once and ends the process;
\* no call is made after it.
C19_StepAnyStatus ==
    /\ ~journal.exited
    /\ FatalCall
        => /\ SubSeq(CurTest(journal').extra_info, 1, Len(CurTest(journal).extra_info) + 2)
                = CurTest(journal).extra_info \o FatalRecords
           /\ CurTest(journal').status = SUSELOG_STATUS_ERROR
           /\ ReportShows(SUSELOG_STATUS_ERROR)
           /\ (Len(last'.out) = 1 \/ journal'.fault)
           /\ journal'.exited

C19_FatalFinishesAsError == [][C19_StepAnyStatus]_vars

\* C19 amended: suselog_fatal logs "FATAL ERROR" and its message as two ERROR
\* records on the current test and asks to finish it as ERROR: a test that was
\* RUNNING or ERROR has status ERROR afterwards and in the report; a test that
\* was terminal with another status keeps that status, in the journal and in
\* the report, and gets the conflict warning as a third record.  The report is
\* written once (or the process crashes writing a null message, see
\* suselog_journal_write), the process ends, and no call is made after it.
C19_StepByStatus ==
    /\ ~journal.exited
    /\ FatalCall
        => LET old == CurTest(journal)
               new == CurTest(journal')
               kept == Terminal(old.status) /\ old.status # SUSELOG_STATUS_ERROR
           IN /\ journal'.cur_test = journal.cur_test
              /\ new.extra_info = old.extra_info \o FatalRecords \o
                    (IF kept
                     THEN << suselog_info_new("WARNING",
                                ConflictMsg(old.status, SUSELOG_STATUS_ERROR)) >>
                     ELSE <<>>)
              /\ new.status = (IF kept THEN old.status ELSE SUSELOG_STATUS_ERROR)
              /\ ReportShows(new.status)
              /\ Len(last'.out) = (IF journal'.fault THEN 0 ELSE 1)
              /\ journal'.fault => NullMessageWritten(journal)
              /\ journal'.exited
    /\ last'.op = "fatal" => journal'.exited

C19_FatalFinishesRunningAsError == [][C19_StepByStatus]_vars

\* suselog_fatal called on a test that had succeeded: the test is SUCCESS in the
\* journal and in the one report written, and holds the conflict warning
C19_Witness ==
    /\ last.op = "fatal"
    /\ last.pre_status = SUSELOG_STATUS_SUCCESS
    /\ journal.exited
    /\ ~journal.fault
    /\ Len(last.out) = 1
    /\ journal.cur_test = [g |-> 1, t |-> 1]
    /\ CurTest(journal).status = SUSELOG_STATUS_SUCCESS
    /\ CurTest(journal).extra_info =
            << suselog_info_new("ERROR", "FATAL ERROR"),
               suselog_info_new("ERROR", "m"),
               suselog_info_new("WARNING", "conflicting test stati - 1 vs 3") >>
    /\ AttrValue(last.out[1].children[1].children[1], "status") = "success"

ReportingCalls ==
    { "success", "failure", "error", "info", "warning", "logmsg", "test_finish" }

RecordingCalls == { "record_stdout", "record_stderr", "record_buffer" }

\* C20: a reporting call (suselog_success, suselog_failure, suselog_error,
\* suselog_info, suselog_warning, suselog_logmsg, suselog_test_finish) or a
\* recording call (suselog_record_stdout, suselog_record_stderr,
\* suselog_record_buffer) made while the journal has no current test changes
\* nothing of the journal: no group or test is created, no record is stored, no
\* counter changes.
C20_Step ==
    (last'.op \in ReportingCalls \cup RecordingCalls /\ journal.cur_test = NoTest)
    => journal' = journal

C20_NoTestNoEffect == [][C20_Step]_vars

\* output recorded right after a group was begun: the group has no test and
\* has counted nothing
C20_Witness ==
    /\ last.op = "record_stdout"
    /\ last.arg = <<65, 1>>
    /\ last.pre_status = -1
    /\ journal.cur_test = NoTest
    /\ journal.cur_group = 1
    /\ journal.groups[1].tests = <<>>
    /\ journal.groups[1].stats = suselog_stats_zero

(***************************************************************************)
(* C21                                                                     *)
(***************************************************************************)
\* the byte sequences that are one valid printable character of the locale
ValidPrintable(locale) ==
    { <<65>>, <<66>> }
        \cup (IF locale = "UTF-8"
              THEN { <<194, 169>>, <<195, 133>>, <<195, 169>> }
              ELSE {})

\* the characters that are stored as they are
Verbatim(locale) == ValidPrintable(locale) \cup { <<10>>, <<9>> }

OctalDigit(d) == SubSeq("01234567", d + 1, d + 1)

\* a backslash and the three octal digits of the byte
ThreeOctalDigits(b) ==
    LET d == CHOOSE d \in (0..3) \X (0..7) \X (0..7) : 64 * d[1] + 8 * d[2] + d[3] = b
    IN "\\" \o OctalDigit(d[1]) \o OctalDigit(d[2]) \o OctalDigit(d[3])

SymbolicEscape(b) ==
    CASE b = 12 -> "\\f"
      [] b = 11 -> "\\v"
      [] b = 13 -> "\\r"
      [] b = 0 -> "\\0"

\* the message the rule gives for the bytes of data from the i-th on
RECURSIVE EscapedFrom(_, _, _)
EscapedFrom(data, i, locale) ==
    IF i > Len(data) THEN ""
    ELSE LET lens == { k \in 1..(Len(data) - i + 1) :
                            SubSeq(data, i, i + k - 1) \in Verbatim(locale) }
         IN IF lens # {}
            THEN LET k == CHOOSE k \in lens : TRUE
                 IN CopyBytes(data, i, k) \o EscapedFrom(data, i + k, locale)
            ELSE (IF data[i] \in {12, 11, 13, 0}
                  THEN SymbolicEscape(data[i])
                  ELSE ThreeOctalDigits(data[i]))
                    \o EscapedFrom(data, i + 1, locale)

RecordSeverity(op) ==
    CASE op = "record_stdout" -> "STDOUT"
      [] op = "record_stderr" -> "STDERR"
      [] op = "record_buffer" -> "INFO"

\* C21: a recording call (suselog_record_stdout, suselog_record_stderr,
\* suselog_record_buffer) that is given at least one byte stores one message on
\* the current test, built character by character: a valid printable character
\* of the locale, newline and tab are copied as they are; form feed, vertical
\* tab, carriage return and NUL become \f, \v, \r, \0; every other byte (a byte
\* of an invalid or incomplete sequence or of a character that is not
\* printable) becomes a backslash and exactly three octal digits.
C21_Step ==
    (/\ last'.op \in { "record_stdout", "record_stderr", "record_buffer" }
     /\ journal.cur_test # NoTest
     /\ last'.arg.data # <<>>)
    => LET ct == journal.cur_test
           old == CurTest(journal)
           new == journal'.groups[ct.g].tests[ct.t]
       IN /\ ~journal'.fault
          /\ new.extra_info = old.extra_info \o
                << suselog_info_new(RecordSeverity(last'.op),
                                    EscapedFrom(last'.arg.data, 1, last'.arg.locale)) >>

C21_EscapedByCharacter == [][C21_Step]_vars

\* "A\x01B" was recorded as standard output and is stored as "A\001B"
C21_Witness ==
    /\ last.op = "record_stdout"
    /\ last.arg.data = <<65, 1, 66>>
    /\ journal.cur_test # NoTest
    /\ CurTest(journal).extra_info = << suselog_info_new("STDOUT", "A\\001B") >>

(***************************************************************************)
(* C22                                                                     *)
(***************************************************************************)
\* the journal without its writer and what the hooks of the writer have reported
DataModel(J) == [J EXCEPT !.writer = NoWriter]

\* the call of the step, made on the journal J
SameCall(J) ==
    CASE last'.op = "group_begin" ->
            [journal |-> suselog_group_begin(J, last'.arg), out |-> <<>>]
      [] last'.op = "group_finish" ->
            [journal |-> suselog_group_finish(J), out |-> <<>>]
      [] last'.op = "test_begin" ->
            [journal |-> suselog_test_begin(J, last'.arg), out |-> <<>>]
      [] last'.op = "test_finish" ->
            [journal |-> suselog_test_finish(J, last'.status), out |-> <<>>]
      [] last'.op = "failure" ->
            [journal |-> suselog_failure(J, last'.arg), out |-> <<>>]
      [] last'.op = "info" ->
            [journal |-> suselog_info(J, last'.arg), out |-> <<>>]
      [] last'.op = "write" -> suselog_journal_write(J, "text")

\* C22: the writer never affects the data model or the JUnit output.  The new
\* journal has the same groups, tests, statuses, logs and statistics whatever
\* writer it is given; and every call leaves the same groups, tests, statuses,
\* logs, statistics and current group and test, and writes the same document,
\* as the same call on the same journal without a writer, be the writer of
\* the journal absent, a writer without hooks, or a writer with any of the
\* hooks.  No call fails for a hook that is absent.
C22_Step ==
    /\ last.op = "journal_new"
            => DataModel(journal) = suselog_journal_new(journal.name, NoWriter)
    /\ ~journal'.fault
    /\ LET other == SameCall(DataModel(journal))
       IN /\ DataModel(other.journal) = DataModel(journal')
          /\ other.out = last'.out

C22_WriterNeverAffectsData == [][C22_Step]_vars

\* a journal whose writer has the begin_test and message hooks only has written
\* its report, after these two hooks have been called for a failed test
C22_Witness ==
    /\ last.op = "write"
    /\ Len(last.out) = 1
    /\ journal.writer.present
    /\ journal.writer.hooks = { "begin_test", "message" }
    /\ Len(journal.writer.console) = 2
    /\ journal.writer.console[1].hook = "begin_test"
    /\ journal.writer.console[2].hook = "message"
    /\ Len(journal.groups) = 1
    /\ Len(journal.groups[1].tests) = 1
    /\ journal.groups[1].tests[1].status = SUSELOG_STATUS_FAILURE

(***************************************************************************)
(* C23                                                                     *)
(***************************************************************************)
\* a report was written
Written == last.op = "write" /\ last.out # <<>>

\* the children of the node that bear the name, in document order
RECURSIVE ChildrenNamed(_, _, _)
ChildrenNamed(node, name, i) ==
    IF i > Len(node.children) THEN <<>>
    ELSE (IF node.children[i].name = name THEN << node.children[i] >> ELSE <<>>)
            \o ChildrenNamed(node, name, i + 1)

\* the number of tests of the group that have the status
StatusCount(group, status) ==
    Cardinality({ t \in 1..Len(group.tests) : group.tests[t].status = status })

\* the testsuite element is that of the group: one testcase per test, in the
\* order of the tests, the counters of the tests by status, and no failure or
\* error element under the testcase of a successful test
TestsuiteOfGroup(suite, group) ==
    LET testcases == ChildrenNamed(suite, "testcase", 1)
    IN /\ suite.name = "testsuite"
       /\ Len(testcases) = Len(group.tests)
       /\ \A t \in 1..Len(group.tests) :
            /\ AttrValue(testcases[t], "classname") = group.tests[t].name
            /\ AttrValue(testcases[t], "status") = StatusAttr(group.tests[t].status)
            /\ group.tests[t].status = SUSELOG_STATUS_SUCCESS
                => /\ ChildrenNamed(testcases[t], "failure", 1) = <<>>
                   /\ ChildrenNamed(testcases[t], "error", 1) = <<>>
       /\ AttrValue(suite, "tests") = ToString(Len(group.tests))
       /\ AttrValue(suite, "failures")
            = ToString(StatusCount(group, SUSELOG_STATUS_FAILURE))
       /\ AttrValue(suite, "errors")
            = ToString(StatusCount(group, SUSELOG_STATUS_ERROR))

\* the journal holds one group with one successful test
OneSuccessfulTest(J) ==
    /\ Len(J.groups) = 1
    /\ Len(J.groups[1].tests) = 1
    /\ J.groups[1].tests[1].status = SUSELOG_STATUS_SUCCESS

\* C23: in a written report, the testsuite of every group that is serialized
\* as its own testsuite contains exactly one testcase per test of the group,
\* in creation order; its tests, failures and errors attributes are the number
\* of the group's tests, of its tests with status FAILURE and of its tests
\* with status ERROR; a testcase whose status is SUCCESS has no failure and no
\* error child.  One group with one successful test gives a root with
\* tests=1, failures=0, errors=0 and one testsuite with one such testcase.
C23_TestsuiteOfGroup ==
    Written
    => /\ Len(last.out[1].children) = Len(journal.groups)
       /\ \A g \in GroupIds(journal) :
            TestsuiteOfGroup(last.out[1].children[g], journal.groups[g])
       /\ OneSuccessfulTest(journal)
            => /\ last.out[1].name = "testsuites"
               /\ AttrValue(last.out[1], "tests") = "1"
               /\ AttrValue(last.out[1], "failures") = "0"
               /\ AttrValue(last.out[1], "errors") = "0"
               /\ Len(last.out[1].children) = 1
               /\ Len(ChildrenNamed(last.out[1].children[1], "testcase", 1)) = 1

\* a group with a failed test and then an erroneous test in the report
C23_Witness ==
    /\ Written
    /\ Len(journal.groups) = 1
    /\ Len(journal.groups[1].tests) = 2
    /\ journal.groups[1].tests[1].status = SUSELOG_STATUS_FAILURE
    /\ journal.groups[1].tests[2].status = SUSELOG_STATUS_ERROR
    /\ AttrValue(last.out[1].children[1], "tests") = "2"
    /\ AttrValue(last.out[1].children[1], "failures") = "1"
    /\ AttrValue(last.out[1].children[1], "errors") = "1"

(***************************************************************************)
(* C24                                                                     *)
(***************************************************************************)
\* an element of the name under the testcase needs a record of the severity
\* in the log of the test
ElementNeedsRecord(testcase, test, name, severity) ==
    ChildrenNamed(testcase, name, 1) # <<>>
    => RecordsOf(test.extra_info, severity) # {}

\* C24: in a written report a failure element is under a testcase only if the
\* test holds at least one record of severity FAILURE, and an error element
\* only if the test holds at least one record of severity ERROR; this holds
\* for every test, also for one that suselog_test_finish has finished as
\* FAILURE or ERROR without such a message but with other messages logged.
C24_ElementOnlyWithRecord ==
    Written
    => \A g \in GroupIds(journal) : \A t \in TestIds(journal, g) :
            LET testcase == ChildrenNamed(last.out[1].children[g], "testcase", 1)[t]
                test == journal.groups[g].tests[t]
            IN /\ ElementNeedsRecord(testcase, test, "failure", "FAILURE")
               /\ ElementNeedsRecord(testcase, test, "error", "ERROR")

(***************************************************************************)
(* C25                                                                     *)
(***************************************************************************)
\* the line of a record in the output of its test: the tag of the severity,
\* the message and a newline
TaggedLine(info) ==
    (CASE info.severity = "FAILURE" -> "FAIL: "
       [] info.severity = "ERROR" -> "ERROR: "
       [] OTHER -> "")
    \o info.message \o "\n"

\* the messages of the test, in the order of its log
TestOutput(test) == SumText(TaggedLine, test.extra_info, 1)

\* the header line of the test and its messages
TestOutputWithHeader(test) ==
    "# " \o test.name \o " (" \o Description \o ")\n" \o TestOutput(test)

\* the output of the tests of the group, in test order
GroupOutput(group) == SumText(TestOutputWithHeader, group.tests, 1)

\* the texts of the system-out children of the node
SystemOutOf(node) ==
    LET outs == ChildrenNamed(node, "system-out", 1)
    IN [i \in 1..Len(outs) |->
            IF Len(outs[i].children) = 1 THEN outs[i].children[1].cdata ELSE NULL]

\* the system-out elements of the testsuite and of its testcases are those of
\* the level; OfGroup is what the testsuite of the group shows at level GROUP
SystemOutPlaced(suite, group, level, OfGroup(_)) ==
    LET testcases == ChildrenNamed(suite, "testcase", 1)
    IN IF level = SUSELOG_LEVEL_TEST
       THEN /\ SystemOutOf(suite) = <<>>
            /\ \A t \in 1..Len(group.tests) :
                    SystemOutOf(testcases[t]) =
                        IF group.tests[t].extra_info = <<>> THEN <<>>
                        ELSE << TestOutput(group.tests[t]) >>
       ELSE /\ SystemOutOf(suite) = OfGroup(group)
            /\ \A t \in 1..Len(group.tests) : SystemOutOf(testcases[t]) = <<>>

\* at level GROUP every testsuite has one system-out child
AlwaysOne(group) == << GroupOutput(group) >>

\* at level GROUP the testsuite of a group that has tests has one system-out
\* child, the testsuite of a group without tests has none
OneIfTests(group) == IF group.tests = <<>> THEN <<>> ELSE << GroupOutput(group) >>

\* C25: system-out placement follows the journal's setting.  At level TEST,
\* which journal creation sets, the records of each test are in a system-out
\* child of its testcase and the testsuite has none; at level GROUP every
\* testsuite has a single system-out child that holds, in test order, a header
\* line per test followed by the messages of that test, and no testcase has a
\* system-out child.
C25_SystemOutAtLevel ==
    /\ last.op = "journal_new" => journal.systemout_level = SUSELOG_LEVEL_TEST
    /\ Written
        => \A g \in GroupIds(journal) :
                SystemOutPlaced(last.out[1].children[g], journal.groups[g],
                                journal.systemout_level, AlwaysOne)

\* C25, amended: as C25, but at level GROUP only the testsuite of a group that
\* has at least one test has the system-out child; the testsuite of a group
\* without tests has no system-out child.
C25_SystemOutAtLevelIfTests ==
    /\ last.op = "journal_new" => journal.systemout_level = SUSELOG_LEVEL_TEST
    /\ Written
        => \A g \in GroupIds(journal) :
                SystemOutPlaced(last.out[1].children[g], journal.groups[g],
                                journal.systemout_level, OneIfTests)

\* a report at level GROUP of a group of two tests that hold a message each
C25_Witness ==
    /\ Written
    /\ journal.systemout_level = SUSELOG_LEVEL_GROUP
    /\ Len(journal.groups) = 1
    /\ Len(journal.groups[1].tests) = 2
    /\ Len(journal.groups[1].tests[1].extra_info) = 1
    /\ Len(journal.groups[1].tests[2].extra_info) = 1
    /\ journal.groups[1].tests[2].extra_info[1].severity = "FAILURE"
    /\ SystemOutOf(last.out[1].children[1]) =
            << "# mytest.group0 (d)\nm\n# mytest.group0 (d)\nFAIL: m\n" >>

(***************************************************************************)
(* C26                                                                     *)
(***************************************************************************)
\* the number in two digits
TwoDigits(n) == SubSeq("0123456789", (n \div 10) + 1, (n \div 10) + 1)
                    \o SubSeq("0123456789", (n % 10) + 1, (n % 10) + 1)

\* the calendar month of the local time: 1 for January .. 12 for December
CalendarMonth(tm) == tm.tm_mon + 1

\* C26: the timestamp attribute of a testsuite renders the creation time of
\* the group in local time as YYYY-MM-DDTHH:MM:SS with zero-padded fields,
\* where the month field is the calendar month 01..12 and the day 01..31, and
\* nothing follows the seconds.
C26_TimestampIso8601 ==
    last.op = "junit_timestamp"
    => last.rv = ToString(last.arg.tm_year + 1900)
                    \o "-" \o TwoDigits(CalendarMonth(last.arg))
                    \o "-" \o TwoDigits(last.arg.tm_mday)
                    \o "T" \o TwoDigits(last.arg.tm_hour)
                    \o ":" \o TwoDigits(last.arg.tm_min)
                    \o ":" \o TwoDigits(last.arg.tm_sec)

(***************************************************************************)
(* C27                                                                     *)
(***************************************************************************)
HasQuote(string) ==
    string # NULL /\ \E i \in 1..Len(string) : Char(string, i) = "\""

\* an attribute of the element has a value with a double quote in it
QuoteInAttr(node) == \E a \in 1..Len(node.attrs) : HasQuote(node.attrs[a][2])

\* the attributes read back from the start tag, after "<" and the name
ReadBack(tag, node) == xml_get_tag_attributes(tag, Len(node.name) + 2)

\* C27: when an attribute value of a written report (a failure or error
\* message, a name or a description) contains a double quote, the quote is
\* escaped in the document: the attributes read back from the start tag of
\* the element are the attributes of the element, with the original values,
\* and no value ends at the embedded quote.
C27_QuoteEscaped ==
    Written
    => \A i \in 1..Len(last.rv) :
            LET node == ElementsOf(last.out[1])[i]
            IN QuoteInAttr(node)
                => /\ ReadBack(last.rv[i], node).token # "None"
                   /\ ReadBack(last.rv[i], node).attrs = node.attrs

(***************************************************************************)
(* C28                                                                     *)
(***************************************************************************)
\* the last test of the last group of the journal
LastTest(J) == [g |-> Len(J.groups), t |-> Len(J.groups[Len(J.groups)].tests)]

\* C28: right after suselog_test_begin has returned the test it created, that
\* test is the current test; and in every reachable state the current group,
\* if there is one, is the last group of the journal, and the current test,
\* if there is one, is the last test of the last group: there is never more
\* than one current group and one current test.
C28_OneCurrentScope ==
    /\ last.op = "test_begin"
        => /\ journal.cur_group # 0
           /\ suselog_current_test(journal) = LastTest(journal)
           /\ CurTest(journal).status = SUSELOG_STATUS_RUNNING
           /\ CurTest(journal).extra_info = <<>>
    /\ suselog_current_group(journal) \in { 0, Len(journal.groups) }
    /\ suselog_current_test(journal) # NoTest
        => suselog_current_test(journal) = LastTest(journal)

\* a test was begun in the second group, after a test of the first group
C28_Witness ==
    /\ last.op = "test_begin"
    /\ Len(journal.groups) = 2
    /\ Len(journal.groups[1].tests) = 1
    /\ journal.cur_group = 2
    /\ journal.cur_test = [g |-> 2, t |-> 1]

(***************************************************************************)
(* C29                                                                     *)
(***************************************************************************)
\* C29: serialization is repeatable: two suselog_journal_write calls in
\* succession, with no other call in between, write the same document -- the
\* same testsuite elements in the same order with the same testcases and
\* counters -- also when groups of the journal hold merged content.
C29_Step ==
    (last.op = "write" /\ last'.op = "write" /\ last.out # <<>> /\ last'.out # <<>>)
    => last'.out = last.out

C29_WriteRepeatable == [][C29_Step]_vars

(***************************************************************************)
(* C30                                                                     *)
(***************************************************************************)
\* the counters of the group are the numbers of its tests, by status
StatsCountTests(group) ==
    /\ group.stats.num_tests = Len(group.tests)
    /\ group.stats.num_succeeded = StatusCount(group, SUSELOG_STATUS_SUCCESS)
    /\ group.stats.num_failed = StatusCount(group, SUSELOG_STATUS_FAILURE)
    /\ group.stats.num_errors = StatusCount(group, SUSELOG_STATUS_ERROR)

\* C30: in every reachable state and for every group, stats.num_tests is the
\* number of tests of the group, and num_succeeded, num_failed and num_errors
\* are the numbers of its tests whose status is SUCCESS, FAILURE and ERROR;
\* a test that is RUNNING or SKIPPED is counted in num_tests only.
C30_StatsCountTests ==
    \A g \in GroupIds(journal) : StatsCountTests(journal.groups[g])

\* a group with a skipped test and a failed test: two tests, one failure
C30_Witness ==
    /\ Len(journal.groups) = 1
    /\ Len(journal.groups[1].tests) = 2
    /\ journal.groups[1].tests[1].status = SUSELOG_STATUS_SKIPPED
    /\ journal.groups[1].tests[2].status = SUSELOG_STATUS_FAILURE
    /\ journal.groups[1].stats.num_tests = 2
    /\ journal.groups[1].stats.num_failed = 1
    /\ journal.groups[1].stats.num_succeeded = 0
    /\ journal.groups[1].stats.num_errors = 0

(***************************************************************************)
(* C31                                                                     *)
(***************************************************************************)
\* the groups of the journal without its current group, in their order
FinishedGroups(J) ==
    IF J.cur_group = 0 THEN J.groups
    ELSE [i \in 1..(Len(J.groups) - 1) |->
            J.groups[IF i < J.cur_group THEN i ELSE i + 1]]

C31_Sum == journal.stats = StatsSum(FinishedGroups(journal))

C31_Step ==
    \A g \in GroupIds(journal) :
        g # journal.cur_group => journal'.groups[g].stats = journal.groups[g].stats

\* C31: in every reachable state the statistics of the journal are the
\* element-wise sum of the statistics of exactly the groups that are not the
\* current group: the statistics of a group are added once, when the group is
\* finished, and no call changes them afterwards; the counters of the journal
\* do not include the tests of the group that is still open.
C31_FinishedGroupsSum == []C31_Sum /\ [][C31_Step]_vars

\* the first group is finished with a failed test, the second group is open
\* with a test of its own: the journal counts one test of the two
C31_Witness ==
    /\ Len(journal.groups) = 2
    /\ journal.cur_group = 2
    /\ journal.groups[1].stats.num_failed = 1
    /\ journal.groups[2].stats.num_tests = 1
    /\ journal.stats.num_tests = 1
    /\ journal.stats.num_failed = 1

(***************************************************************************)
(* C32                                                                     *)
(***************************************************************************)
\* the call has appended one group, auto-named from the journal's autoname
\* index, made it current and left the groups before it as they were
OneAnonymousGroup ==
    /\ Len(journal'.groups) = Len(journal.groups) + 1
    /\ journal'.cur_group = Len(journal'.groups)
    /\ journal'.groups[Len(journal'.groups)].name =
            journal.name \o ".group" \o ToString(journal.autoname)
    /\ journal'.autoname = journal.autoname + 1
    /\ \A g \in GroupIds(journal) : journal'.groups[g] = journal.groups[g]

\* the call has created no group and has left the current group current
NoNewGroup ==
    /\ Len(journal'.groups) = Len(journal.groups)
    /\ journal'.cur_group = journal.cur_group
    /\ journal'.autoname = journal.autoname
    /\ \A g \in GroupIds(journal) \ { journal.cur_group } :
            journal'.groups[g] = journal.groups[g]

C32_Step ==
    last'.op \in { "test_begin", "merge" }
    => /\ IF journal.cur_group = 0 THEN OneAnonymousGroup ELSE NoNewGroup
       /\ last'.op = "test_begin"
            => /\ journal'.cur_test.g = journal'.cur_group
               /\ Len(journal'.groups[journal'.cur_group].tests) =
                    (IF journal.cur_group = 0 THEN 0
                     ELSE Len(journal.groups[journal.cur_group].tests)) + 1
       /\ last'.op = "merge"
            => journal'.groups[journal'.cur_group].merged =
                    (IF last'.arg.doc
                     THEN MergeFrom(IF journal.cur_group = 0 THEN NoMerged
                                    ELSE journal.groups[journal.cur_group].merged,
                                    last'.arg.children, 1).merged
                     ELSE IF journal.cur_group = 0 THEN NoMerged
                     ELSE journal.groups[journal.cur_group].merged)

\* C32: suselog_test_begin and suselog_journal_merge, called while the journal
\* has no current group, each create exactly one new auto-named group, append
\* it and make it current before they go on; called while a group is current
\* they create no group and act on the current one.
C32_AnonymousGroupWhenNone == [][C32_Step]_vars

\* a file was merged after the first group was finished: the test suite of
\* the file is in the new second group, which is auto-named and current
C32_Witness ==
    /\ last.op = "merge"
    /\ last.pre_group = 0
    /\ Len(journal.groups) = 2
    /\ journal.groups[1].name = "mytest.foobar"
    /\ Len(journal.groups[1].tests) = 1
    /\ journal.groups[2].name = "mytest.group0"
    /\ journal.cur_group = 2
    /\ Len(journal.groups[2].merged.children) = 1

(***************************************************************************)
(* C33                                                                     *)
(***************************************************************************)
C33_Step ==
    \A g \in GroupIds(journal) : \A t \in TestIds(journal, g) :
        /\ Terminal(journal.groups[g].tests[t].status)
            => journal'.groups[g].tests[t].status = journal.groups[g].tests[t].status
        /\ [g |-> g, t |-> t] # journal.cur_test
            => /\ journal'.groups[g].tests[t].status = journal.groups[g].tests[t].status
               /\ journal'.groups[g].tests[t].extra_info =
                    journal.groups[g].tests[t].extra_info

\* C33: the status of a test that has left RUNNING never changes again, neither
\* back to RUNNING nor to another status; and no call changes the status or
\* the Info log of a test that is not the current test of the journal.
C33_FinishedTestsFrozen == [][C33_Step]_vars

\* the second test of the group, finished as FAILURE, was then reported as
\* SUCCESS: it is still FAILURE, and the first test is as it was finished
C33_Witness ==
    /\ last.op = "test_finish"
    /\ last.status = SUSELOG_STATUS_SUCCESS
    /\ last.pre_status = SUSELOG_STATUS_FAILURE
    /\ journal.cur_test = [g |-> 1, t |-> 2]
    /\ CurTest(journal).status = SUSELOG_STATUS_FAILURE
    /\ journal.groups[1].tests[1].status = SUSELOG_STATUS_SKIPPED
    /\ journal.groups[1].tests[1].extra_info = <<>>

(***************************************************************************)
(* C34                                                                     *)
(***************************************************************************)
\* C34: whenever the journal has no current group, it has no current test or
\* its current test is not RUNNING; so suselog_test_finish never updates the
\* statistics of a missing group, and a current test that is RUNNING is a
\* test of the current group.
C34_RunningTestHasGroup ==
    /\ suselog_current_group(journal) = 0
        => \/ suselog_current_test(journal) = NoTest
           \/ CurTest(journal).status # SUSELOG_STATUS_RUNNING
    /\ ~journal.fault
    /\ __suselog_test_running(journal)
        => suselog_current_test(journal).g = suselog_current_group(journal)

\* suselog_test_finish was called after the group was finished, with the
\* status the test already has: there is no group, and nothing is updated
C34_Witness ==
    /\ last.op = "test_finish"
    /\ last.pre_group = 0
    /\ last.status = SUSELOG_STATUS_SUCCESS
    /\ last.pre_status = SUSELOG_STATUS_SUCCESS
    /\ journal.cur_group = 0
    /\ journal.cur_test = [g |-> 1, t |-> 1]
    /\ journal.groups[1].stats.num_succeeded = 1
    /\ ~journal.fault

(***************************************************************************)
(* C35                                                                     *)
(***************************************************************************)
MessageCalls == { "info", "warning", "failure", "error" }

\* the severity of the record that the call of the step stores first
FirstSeverity ==
    CASE last'.op = "info" -> "INFO"
      [] last'.op = "warning" -> "WARNING"
      [] last'.op = "failure" -> "FAILURE"
      [] last'.op = "error" -> "ERROR"
      [] OTHER -> RecordSeverity(last'.op)

C35_Step ==
    /\ last'.op \in { "group_finish", "finish" }
        => /\ journal'.cur_group = 0
           /\ journal'.cur_test = journal.cur_test
           /\ (journal.cur_group # 0 /\ journal.groups[journal.cur_group].tests # <<>>)
                => journal'.cur_test =
                        [g |-> journal.cur_group,
                         t |-> Len(journal.groups[journal.cur_group].tests)]
    /\ ( /\ journal.cur_group = 0
         /\ journal.cur_test # NoTest
         /\ \/ last'.op \in MessageCalls
            \/ last'.op \in RecordingCalls /\ last'.arg # <<>> )
        => LET ct == journal.cur_test
               old == CurTest(journal)
               new == journal'.groups[ct.g].tests[ct.t]
           IN /\ Terminal(old.status)
              /\ new.status = old.status
              /\ Len(new.extra_info) > Len(old.extra_info)
              /\ SubSeq(new.extra_info, 1, Len(old.extra_info)) = old.extra_info
              /\ new.extra_info[Len(old.extra_info) + 1].severity = FirstSeverity
              /\ last'.op \in MessageCalls
                    => new.extra_info[Len(old.extra_info) + 1].message = last'.arg
              /\ journal'.cur_test = ct
              /\ journal'.cur_group = 0

\* C35: suselog_group_finish and suselog_finish clear the current group and
\* leave the current test where it is, on the last test of the group they
\* finish; a message of suselog_info, suselog_warning, suselog_failure or
\* suselog_error and output (of one byte or more) recorded after that, before
\* a group or a test is begun, are appended to the log of that finished test.
C35_FinishKeepsCurrentTest == [][C35_Step]_vars

\* a failure reported after suselog_group_finish: its message is in the log of
\* the test that the group had finished as SUCCESS
C35_Witness ==
    /\ last.op = "failure"
    /\ last.pre_group = 0
    /\ last.pre_status = SUSELOG_STATUS_SUCCESS
    /\ journal.cur_group = 0
    /\ journal.cur_test = [g |-> 1, t |-> 1]
    /\ CurTest(journal).status = SUSELOG_STATUS_SUCCESS
    /\ CurTest(journal).extra_info[1] = suselog_info_new("FAILURE", "m")

(***************************************************************************)
(* C36                                                                     *)
(***************************************************************************)
Console == journal.writer.console

\* the positions in the console of the calls of the hook for the group g (and
\* its test t, or 0)
HookCalls(hook, g, t) ==
    { i \in 1..Len(Console) :
        Console[i].hook = hook /\ Console[i].g = g /\ Console[i].t = t }

\* the test begun at position i has its end_test call before position j
EndedBetween(g, t, i, j) ==
    \E k \in (i + 1)..(j - 1) : k \in HookCalls("end_test", g, t)

\* C36: in the sequence of the hook calls of a writer that has every hook, each
\* group has exactly one begin_group call and at most one end_group call; the
\* end_group call of a group comes before the begin_group call of the next
\* group; every begin_test call of a group lies after the begin_group call and
\* before the end_group call of that group; and a test has its end_test call
\* before the next begin_test call and before the end_group call of its group,
\* also when it was still RUNNING when that test began or the group finished.
C36_HookOrder ==
    \A g \in GroupIds(journal) :
        /\ Cardinality(HookCalls("begin_group", g, 0)) = 1
        /\ Cardinality(HookCalls("end_group", g, 0)) <= 1
        /\ g < Len(journal.groups)
            => \E e \in HookCalls("end_group", g, 0) :
                    \A b \in HookCalls("begin_group", g + 1, 0) : e < b
        /\ \A t \in TestIds(journal, g) :
                /\ HookCalls("begin_test", g, t) # {}
                /\ \A i \in HookCalls("begin_test", g, t) :
                    /\ \E b \in HookCalls("begin_group", g, 0) : b < i
                    /\ \A e \in HookCalls("end_group", g, 0) : i < e
                    /\ \A j \in (i + 1)..Len(Console) :
                        ( \/ Console[j].hook = "begin_test"
                          \/ Console[j].hook = "end_group" /\ Console[j].g = g )
                        => EndedBetween(g, t, i, j)

\* the second group was begun while the second test of the first group was
\* RUNNING: the console ends with the end_test call of that test, the
\* end_group call of the first group and the begin_group call of the second
C36_Witness ==
    /\ last.op = "group_begin"
    /\ last.pre_status = SUSELOG_STATUS_RUNNING
    /\ last.pre_group = 1
    /\ Len(journal.groups) = 2
    /\ Len(journal.groups[1].tests) = 2
    /\ Len(Console) = 8
    /\ Console[2].hook = "begin_group"
    /\ Console[3].hook = "begin_test"
    /\ Console[4].hook = "end_test"
    /\ Console[5].hook = "begin_test"
    /\ 6 \in HookCalls("end_test", 1, 2)
    /\ 7 \in HookCalls("end_group", 1, 0)
    /\ 8 \in HookCalls("begin_group", 2, 0)

(***************************************************************************)
(* C37                                                                     *)
(***************************************************************************)
\* the root element of the report shows the sums of the statistics of the
\* groups of J
RootShowsGroupSums(root, J) ==
    /\ root.name = "testsuites"
    /\ AttrValue(root, "tests") = ToString(StatsSum(J.groups).num_tests)
    /\ AttrValue(root, "failures") = ToString(StatsSum(J.groups).num_failed)
    /\ AttrValue(root, "errors") = ToString(StatsSum(J.groups).num_errors)

\* C37: the tests, failures and errors attributes of the root element of a
\* written report are the sums of the statistics of the journal's own groups,
\* the groups whose test suite is replaced by merged content included; the
\* counters of the merged test suites add nothing to them.
C37_RootCountsOwnGroups ==
    (last.op = "write" /\ last.out # <<>>)
    => RootShowsGroupSums(last.out[1], journal)

\* the first group holds a failed test and a merged test suite of three
\* tests, the second group a test: the root counts two tests, one failure
C37_Witness ==
    /\ last.op = "write"
    /\ Len(last.out) = 1
    /\ Len(journal.groups) = 2
    /\ journal.groups[1].merged.node
    /\ journal.groups[1].stats.num_failed = 1
    /\ journal.groups[2].stats.num_tests = 1
    /\ AttrValue(last.out[1].children[1], "name") = "b"
    /\ AttrValue(last.out[1].children[1], "tests") = "3"
    /\ AttrValue(last.out[1], "tests") = "2"
    /\ AttrValue(last.out[1], "failures") = "1"
    /\ AttrValue(last.out[1], "errors") = "0"

(***************************************************************************)
(* C38                                                                     *)
(***************************************************************************)
\* the tag of a record of the severity
TagOf(severity) ==
    CASE severity = "FAILURE" -> "FAIL: "
      [] severity = "ERROR" -> "ERROR: "
      [] severity \in { "STDOUT", "STDERR" } -> "standard output:" \o "\n"
      [] severity \in { "INFO", "WARNING" } -> ""

\* tag, message, and a newline when the message does not end in one
NewlineTerminated(info) ==
    TagOf(info.severity) \o info.message
        \o (IF EndsInNewline(info.message) THEN "" ELSE "\n")

\* the failure, error and system-out children of the testcase
TextElements(testcase) ==
    ChildrenNamed(testcase, "failure", 1) \o ChildrenNamed(testcase, "error", 1)
        \o ChildrenNamed(testcase, "system-out", 1)

\* C38: the text of a failure, error or system-out element of a testcase is
\* the concatenation, in the order of the log, over all records of the test,
\* of the tag of the severity, the message, and a newline when the message
\* does not already end in one; the tag is "FAIL: " for FAILURE, "ERROR: "
\* for ERROR, "standard output:" and a newline for STDOUT and for STDERR, and
\* empty for INFO and WARNING.
C38_ElementText ==
    Written
    => \A g \in GroupIds(journal) :
        LET testcases == ChildrenNamed(last.out[1].children[g], "testcase", 1)
        IN \A t \in TestIds(journal, g) :
            \A i \in 1..Len(TextElements(testcases[t])) :
                TextElements(testcases[t])[i].children =
                    << xml_cdata_new(SumText(NewlineTerminated,
                                             journal.groups[g].tests[t].extra_info, 1)) >>

(***************************************************************************)
(* C39                                                                     *)
(***************************************************************************)
C39_Step ==
    (last'.op \in RecordingCalls /\ journal.cur_test # NoTest)
    => LET ct == journal.cur_test
           old == CurTest(journal)
           new == journal'.groups[ct.g].tests[ct.t]
       IN /\ ~journal'.fault
          /\ Len(new.extra_info) = Len(old.extra_info) + 1
          /\ SubSeq(new.extra_info, 1, Len(old.extra_info)) = old.extra_info
          /\ new.extra_info[Len(new.extra_info)].severity = RecordSeverity(last'.op)
          /\ new.extra_info[Len(new.extra_info)].message # NULL
          /\ last'.arg = <<>> => new.extra_info[Len(new.extra_info)].message = ""
          /\ new.status = old.status
          /\ journal'.cur_test = ct
          /\ journal'.cur_group = journal.cur_group
          /\ journal'.stats = journal.stats
          /\ Len(journal'.groups) = Len(journal.groups)
          /\ \A g \in GroupIds(journal) :
                /\ journal'.groups[g].stats = journal.groups[g].stats
                /\ Len(journal'.groups[g].tests) = Len(journal.groups[g].tests)
                /\ \A t \in TestIds(journal, g) :
                        (g # ct.g \/ t # ct.t) =>
                            journal'.groups[g].tests[t] = journal.groups[g].tests[t]

\* C39: with a current test, each call of suselog_record_stdout,
\* suselog_record_stderr and suselog_record_buffer appends exactly one record,
\* of severity STDOUT, STDERR and INFO, to the log of that test and changes
\* nothing else -- not the status, the statistics or the current group and
\* test -- for input of every length, the input of length zero included.
C39_RecordAppendsOne == [][C39_Step]_vars

TypeOK ==
    /\ journal.cur_group \in 0..Len(journal.groups)
    /\ Len(journal.groups) <= MaxNamedGroups
====
